---- MODULE Spec2Model ----
(***************************************************************************)
(* FinancelyAI: the household ledger.                                      *)
(*                                                                         *)
(* The model follows the event loop of the browser: every handler runs to  *)
(* its first real suspension point in one step.  The sql.js database is an *)
(* in-memory object, so a db.* call writes its tables synchronously inside *)
(* the step that calls it; what is asynchronous is the Oracle call, the    *)
(* IndexedDB mirror write and the reload that follows it.                  *)
(*                                                                         *)
(* Abstractions: ids are naturals (member i is 'mem-i', a fresh            *)
(* crypto.randomUUID() is the next value of a counter), amounts are cents  *)
(* scaled down, a date is the offset of its calendar month from the month  *)
(* of the wall clock, a text (description, keyword, category name) is a    *)
(* sequence of characters.  The amounts of bucket goals and of the numbers *)
(* the Oracle or a rupee field supplies are kept in tenths of a cent, so   *)
(* that a fraction of a cent can be written down.                          *)
(***************************************************************************)
EXTENDS Integers, Sequences, FiniteSets, TLC

VARIABLES
    members,          \* household.members (ids, in list order)
    categories,       \* household.categories (id and name, in list order)
    dbRules,          \* table rules, in rowid order
    dbBucketGoals,    \* table bucket_goals, in rowid order
    dbTrips,          \* table trips, in rowid order
    dbSettings,       \* the row of table household_settings
    goalModals,       \* BucketGoals state: the open modal and its goal
    budgetSuggestions,\* Settings state: the Oracle's budget suggestions
    dashboard,        \* what the last render of Dashboard computed
    suggested,        \* the last call of suggestCategory and its result
    fileImport,       \* FileImport state: the rows handed to the review
    trend,            \* the last call of prepareTrendData and its result
    csvExport,        \* the last CSV export and the text it produced
    storage,          \* the sql.js handle db and the file kept in IndexedDB
    dbExpenses,       \* table expenses
    dbSplits,         \* table expense_splits, in AUTOINCREMENT order
    dbBudgets,        \* table budgets
    dbSubscriptions,  \* table subscriptions
    dbNotifications,  \* table notifications, in insertion order
    household,        \* App state: the snapshot of the last reloadData
    form,             \* AddExpenseModal state
    adding,           \* handleAddExpense calls waiting for the Oracle
    saving,           \* calls waiting for saveDbToIndexedDB, reload pending
    completed,        \* history: the calls whose reload has completed
    nextUuid,         \* crypto.randomUUID(): the next fresh value
    overlapped        \* history: a handler started while another was pending

vars == <<members, categories, dbRules, dbBucketGoals, dbTrips, dbSettings,
          goalModals, budgetSuggestions, dashboard, suggested, fileImport,
          trend, csvExport, storage,
          dbExpenses, dbSplits, dbBudgets, dbSubscriptions,
          dbNotifications, household, form, adding, saving, completed,
          nextUuid, overlapped>>

\* The state of the components other than App and AddExpenseModal.
views == <<goalModals, budgetSuggestions, dashboard, suggested, fileImport,
          trend, csvExport>>

\* The tables no expense submission writes.
settingsTables == <<categories, dbRules, dbBucketGoals, dbTrips, dbSettings>>

----------------------------------------------------------------------------
(* Bounds *)

MaxUuid == 2          \* fresh ids handed out in one behaviour
MaxImportRows == 2    \* rows selected in one import
MaxMembers == 50      \* household size in the equal-split specification
MaxTotal == 12        \* totals 0..MaxTotal in the equal-split specification
MaxUpdates == 2       \* updateHousehold calls in one behaviour of SpecUpdate
MaxDashboardExpenses == 2  \* expenses besides the seed in SpecDash

----------------------------------------------------------------------------
(* Value domains *)

NoTrip == "NULL"
NoGoal == [id |-> -1, name |-> <<>>, targetAmount |-> 0, currentAmount |-> 0]  \* goal: null
ClosedModals ==                             \* handleCloseModals
    [open |-> "none", goal |-> NoGoal, isLoading |-> FALSE, transferAmount |-> 0]
NoSuggestions == [isNull |-> TRUE, list |-> <<>>]   \* budgetSuggestions: null
NotRendered == [rendered |-> FALSE]
NotCalled == [called |-> FALSE, description |-> <<>>, rules |-> <<>>, result |-> "undefined"]
NoRows == [isNull |-> TRUE, rows |-> <<>>]  \* categorizedTransactions: null
NothingImported ==
    [categorizedTransactions |-> NoRows, error |-> FALSE, parsed |-> <<>>,
     oracle |-> "not asked", categoryIds |-> <<>>]
NoTrend ==
    [computed |-> FALSE, now |-> [year |-> 2025, month |-> 0, day |-> 1],
     expenses |-> <<>>,
     result |-> [labels |-> <<>>, currentMonthData |-> <<>>, previousMonthData |-> <<>>]]
NotExported == [exported |-> FALSE, alerted |-> FALSE, filteredExpenses |-> <<>>, csvString |-> <<>>]
Space == " "
CategoryIds == {"cat-1", "cat-5"}           \* household.categories
UnknownCategoryId == "cat-x"                \* an id the Oracle may invent
DateOffsets == {-1, 0}                      \* previous month, this month
FormAmounts == {0, 10, 50}                  \* cents typed as the total
SplitInputs == {-50, 0, 50, 100}            \* cents typed in a split field
FormDescriptions == {<<>>, <<Space>>, <<Space, "a">>}
ImportAmounts == {0, 10, 50}                \* Math.round(t.amount * 100)
ImportDescriptions == {<<>>, <<"a">>}
AnomalyOutcomes == {"throws", "anomalous", "normal"}
BudgetInputs == {0, 50}                     \* cents typed in a budget field
SplitTotals == (0..MaxTotal) \cup {1000}       \* totals of the equal split
SuggestedDescriptions == {"Gym", "Spotify"} \* detectRecurringPayments results

----------------------------------------------------------------------------
(* Helpers *)

RECURSIVE SumSeq(_)
SumSeq(s) == IF s = <<>> THEN 0 ELSE Head(s).amount + SumSeq(Tail(s))

RECURSIVE SumSet(_)
SumSet(S) ==
    IF S = {} THEN 0
    ELSE LET e == CHOOSE x \in S : TRUE IN e.amount + SumSet(S \ {e})

RECURSIVE TrimStart(_)
TrimStart(s) ==
    IF s # <<>> /\ Head(s) = Space THEN TrimStart(Tail(s)) ELSE s

RECURSIVE TrimEnd(_)
TrimEnd(s) ==
    IF s # <<>> /\ s[Len(s)] = Space THEN TrimEnd(SubSeq(s, 1, Len(s) - 1)) ELSE s

Trim(s) == TrimEnd(TrimStart(s))

Ids(S) == {x.id : x \in S}

----------------------------------------------------------------------------
(* Seed data *)

INITIAL_HOUSEHOLD_DATA ==
    [ members       |-> <<1, 2>>,
      categories    |-> << [id |-> "cat-1", name |-> <<"G", "r", "o", "c", "e", "r", "i", "e", "s">>],
                           [id |-> "cat-5", name |-> <<"E", "n", "t", "e", "r", "t", "a", "i", "n", "m", "e", "n", "t">>] >>,
      rules         |-> << [id |-> 0, keyword |-> <<"b", "i", "g", "b", "a", "s", "k", "e", "t">>,
                            categoryId |-> "cat-1"] >>,
      bucketGoals   |-> << [id |-> 0, name |-> <<"G", "o", "a">>, targetAmount |-> 1000,
                            currentAmount |-> 200] >>,
      trips         |-> << [id |-> "trip-1", budget |-> 300,
                            expenses |-> { [id |-> -1, description |-> <<"H">>, amount |-> 30,
                                            date |-> -1, memberId |-> 1, categoryId |-> "cat-1",
                                            splits |-> << [memberId |-> 1, amount |-> 30] >>] }] >>,
      emailAlertsEnabled |-> TRUE,
      monthlyIncome |-> 80,
      expenses      |-> { [id |-> 0, description |-> <<"a">>, amount |-> 40,
                           date |-> 0, memberId |-> 1, categoryId |-> "cat-1",
                           splits |-> << [memberId |-> 1, amount |-> 20],
                                         [memberId |-> 2, amount |-> 20] >>] },
      budgets       |-> { [id |-> "bud-1", categoryId |-> "cat-1", amount |-> 100] },
      subscriptions |-> { [id |-> 0, description |-> "Netflix"] },
      notifications |-> <<>> ]

----------------------------------------------------------------------------
(* services/db: load *)

SplitsOf(expenseId) ==
    LET rows == SelectSeq(dbSplits, LAMBDA r : r.expenseId = expenseId)
    IN  [i \in 1..Len(rows) |-> [memberId |-> rows[i].memberId, amount |-> rows[i].amount]]

ExpensesOfTrip(tripId) ==
    { [id |-> e.id, description |-> e.description, amount |-> e.amount,
       date |-> e.date, memberId |-> e.memberId,
       categoryId |-> e.categoryId, splits |-> SplitsOf(e.id)]
      : e \in {x \in dbExpenses : x.tripId = tripId} }

loadHouseholdData ==
    [ expenses      |-> ExpensesOfTrip(NoTrip),
      rules         |-> dbRules,
      bucketGoals   |-> dbBucketGoals,
      trips         |-> [i \in 1..Len(dbTrips) |->
                            [id |-> dbTrips[i].id, budget |-> dbTrips[i].budget,
                             expenses |-> ExpensesOfTrip(dbTrips[i].id)]],
      emailAlertsEnabled |-> dbSettings.emailAlertsEnabled,
      monthlyIncome |-> dbSettings.monthlyIncome,
      budgets       |-> dbBudgets,
      subscriptions |-> dbSubscriptions,
      notifications |-> dbNotifications ]

----------------------------------------------------------------------------
(* AddExpenseModal *)

DefaultSplits(memberId, totalAmountCents) ==
    [i \in 1..Len(members) |->
        [memberId |-> members[i],
         amount   |-> IF members[i] = memberId THEN totalAmountCents ELSE 0]]

resetForm == [isOpen |-> FALSE, amount |-> 0, memberId |-> members[1], splits |-> <<>>]

\* Variant: the remainder is dropped.
splitEqually_noRemainder(totalAmountCents) ==
    LET memberCount == Len(members)
        baseAmount  == totalAmountCents \div memberCount
    IN  [i \in 1..memberCount |-> [memberId |-> members[i], amount |-> baseAmount]]

\* Variant: the remainder goes to the last members of the list.
splitEqually_remainderLast(totalAmountCents) ==
    LET memberCount == Len(members)
        baseAmount  == totalAmountCents \div memberCount
        remainder   == totalAmountCents % memberCount
    IN  [i \in 1..memberCount |->
            [memberId |-> members[i],
             amount   |-> baseAmount + (IF i > memberCount - remainder THEN 1 ELSE 0)]]

splitEqually(totalAmountCents) ==
    LET memberCount == Len(members)
        baseAmount  == totalAmountCents \div memberCount
        remainder   == totalAmountCents % memberCount
    IN  [i \in 1..memberCount |->
            [memberId |-> members[i],
             amount   |-> baseAmount + (IF i - 1 < remainder THEN 1 ELSE 0)]]

remainingAmount == form.amount - SumSeq(form.splits)

----------------------------------------------------------------------------
(* App.handleAddExpense *)

Notification(prefix, uuid, type, message) ==
    [id |-> <<prefix, uuid>>, type |-> type, message |-> message, isRead |-> FALSE]

\* lines 65-69: the expenses of the category dated on or after the first day
\* of the wall-clock month.
expensesForCategoryThisMonth(hh, newExpense) ==
    {e \in hh.expenses : e.categoryId = newExpense.categoryId /\ e.date >= 0}

\* lines 70-71
SpentBefore(hh, newExpense) == SumSet(expensesForCategoryThisMonth(hh, newExpense))

SpentAfter(hh, newExpense) == SpentBefore(hh, newExpense) + newExpense.amount

\* Variant: the budget counts as exceeded only when strictly above it.
BudgetAlertCheck_strict(hh, newExpense, uuid) ==
    LET found == {b \in hh.budgets : b.categoryId = newExpense.categoryId}
    IN  IF found = {} THEN <<>>
        ELSE
        LET budget == CHOOSE b \in found : TRUE
            spentBefore == SpentBefore(hh, newExpense)
            spentAfter  == SpentAfter(hh, newExpense)
        IN  IF ~(budget.amount > 0) THEN <<>>
            ELSE IF spentBefore < budget.amount /\ spentAfter > budget.amount
            THEN << Notification("notif-budget-exceeded", uuid, "error",
                                 <<"exceeded", newExpense.categoryId>>) >>
            ELSE IF /\ 10 * spentBefore < 9 * budget.amount
                    /\ 10 * spentAfter >= 9 * budget.amount
                    /\ spentAfter < budget.amount
            THEN << Notification("notif-budget-warning", uuid, "warning",
                                 <<"approaching", newExpense.categoryId>>) >>
            ELSE <<>>

\* budget.amount * 0.9 is compared with integer cents: for integers s and B,
\* s < B * 0.9 in IEEE doubles exactly when 10 * s < 9 * B.
BudgetAlertCheck(hh, newExpense, uuid) ==
    LET found == {b \in hh.budgets : b.categoryId = newExpense.categoryId}
    IN  IF found = {} THEN <<>>
        ELSE
        LET budget == CHOOSE b \in found : TRUE
            spentBefore == SpentBefore(hh, newExpense)
            spentAfter  == SpentAfter(hh, newExpense)
        IN  IF ~(budget.amount > 0) THEN <<>>
            ELSE IF spentBefore < budget.amount /\ spentAfter >= budget.amount
            THEN << Notification("notif-budget-exceeded", uuid, "error",
                                 <<"exceeded", newExpense.categoryId>>) >>
            ELSE IF /\ 10 * spentBefore < 9 * budget.amount
                    /\ 10 * spentAfter >= 9 * budget.amount
                    /\ spentAfter < budget.amount
            THEN << Notification("notif-budget-warning", uuid, "warning",
                                 <<"approaching", newExpense.categoryId>>) >>
            ELSE <<>>

\* The synchronous part of one call: lines 55-80, up to the await of the Oracle.
StartAddExpense(newExpense, uuid) ==
    [ expense       |-> [id |-> uuid] @@ newExpense,
      notifications |-> BudgetAlertCheck(household, [id |-> uuid] @@ newExpense, uuid) ]

Busy == adding # {} \/ saving # {}

\* lines 82-92: the Oracle settles, then db.addExpense writes its rows.
addExpense(newExpense, notifications) ==
    /\ dbExpenses' = dbExpenses \cup
          { [id |-> newExpense.id, description |-> newExpense.description,
             amount |-> newExpense.amount, date |-> newExpense.date,
             memberId |-> newExpense.memberId, categoryId |-> newExpense.categoryId,
             tripId |-> NoTrip] }
    /\ dbSplits' = dbSplits \o
          [i \in 1..Len(newExpense.splits) |->
              [expenseId |-> newExpense.id,
               memberId  |-> newExpense.splits[i].memberId,
               amount    |-> newExpense.splits[i].amount]]
    /\ dbNotifications' = dbNotifications \o notifications

\* Variant: the anomaly notification is put in front of the list.
AnomalyDetectionCheck_anomalyFirst(notificationsToAdd, uuid, outcome) ==
    [ threw         |-> FALSE,
      notifications |->
          IF outcome = "anomalous"
          THEN << Notification("notif-anomaly", uuid, "warning",
                               <<"unusual", "reasoning">>) >> \o notificationsToAdd
          ELSE notificationsToAdd ]

\* Variant: no catch, the exception of the Oracle leaves the block.
AnomalyDetectionCheck_nocatch(notificationsToAdd, uuid, outcome) ==
    [ threw         |-> outcome = "throws",
      notifications |->
          IF outcome = "anomalous"
          THEN Append(notificationsToAdd,
                      Notification("notif-anomaly", uuid, "warning",
                                   <<"unusual", "reasoning">>))
          ELSE notificationsToAdd ]

\* lines 83-90: the try/catch around the Oracle call.  threw tells whether
\* an exception leaves the block.
AnomalyDetectionCheck(notificationsToAdd, uuid, outcome) ==
    [ threw         |-> FALSE,
      notifications |->
          IF outcome = "anomalous"
          THEN Append(notificationsToAdd,
                      Notification("notif-anomaly", uuid, "warning",
                                   <<"unusual", "reasoning">>))
          ELSE notificationsToAdd ]

\* The Oracle settles and the call runs on to the await inside db.addExpense;
\* a call that throws is rejected and runs neither line 92 nor line 93.
AnomalyCheckReturns ==
    \E t \in adding, outcome \in AnomalyOutcomes :
        LET checked == AnomalyDetectionCheck(t.notifications, t.expense.id, outcome)
        IN  /\ adding' = adding \ {t}
            /\ IF checked.threw
               THEN /\ completed' = completed \cup
                          {[op |-> "addExpenseRejected", ref |-> t.expense.id,
                            detail |-> outcome]}
                    /\ UNCHANGED <<dbExpenses, dbSplits, dbNotifications, saving>>
               ELSE /\ addExpense(t.expense, checked.notifications)
                    /\ saving' = saving \cup
                          {[op |-> "addExpense", ref |-> t.expense.id, detail |-> outcome]}
                    /\ UNCHANGED completed
            /\ UNCHANGED <<storage, members, dbBudgets, dbSubscriptions, household, form,
                           nextUuid, overlapped>>
            /\ UNCHANGED <<settingsTables, views>>

\* The mark of a call whose transaction ended in the catch block.
RolledBack == "rolled back"

\* db.export(): the image of all tables.
Snapshot ==
    [expenses |-> dbExpenses, splits |-> dbSplits, budgets |-> dbBudgets,
     subscriptions |-> dbSubscriptions, notifications |-> dbNotifications,
     rules |-> dbRules, bucketGoals |-> dbBucketGoals, trips |-> dbTrips,
     settings |-> dbSettings]

\* saveDbToIndexedDB resolves (a call that was rolled back has not saved);
\* reloadData (lines 35-38) replaces the snapshot.
\* loadHouseholdData builds a new members array, so the effect of
\* AddExpenseModal (lines 50-60) runs again and resets the splits; the effect
\* of an open SmartTransferModal depends on household and fetches again.
ReloadData ==
    \E t \in saving :
        /\ household' = loadHouseholdData
        /\ saving' = saving \ {t}
        /\ completed' = completed \cup {t}
        /\ form' = IF form.isOpen
                   THEN [form EXCEPT !.splits = DefaultSplits(form.memberId, form.amount)]
                   ELSE form
        /\ goalModals' = IF goalModals.open = "transfer"
                         THEN [goalModals EXCEPT !.isLoading = TRUE]
                         ELSE goalModals
        /\ storage' = IF t.detail = RolledBack THEN storage
                       ELSE [storage EXCEPT !.hasFile = TRUE, !.file = Snapshot]
        /\ UNCHANGED <<members, dbExpenses, dbSplits, dbBudgets, dbSubscriptions,
                       dbNotifications, adding, nextUuid, overlapped>>
        /\ UNCHANGED <<settingsTables, budgetSuggestions, dashboard, suggested,
                       fileImport, trend, csvExport>>

----------------------------------------------------------------------------
(* AddExpenseModal handlers *)

UnchangedStore ==
    UNCHANGED <<storage, members, dbExpenses, dbSplits, dbBudgets, dbSubscriptions,
                dbNotifications, household, settingsTables, views>>

OpenAddExpenseModal ==
    /\ ~form.isOpen
    /\ form' = [form EXCEPT !.isOpen = TRUE,
                            !.splits = DefaultSplits(form.memberId, form.amount)]
    /\ UnchangedStore
    /\ UNCHANGED <<adding, saving, completed, nextUuid, overlapped>>

setAmount ==
    \E totalAmountCents \in FormAmounts :
        /\ form.isOpen
        /\ form' = [form EXCEPT !.amount = totalAmountCents,
                                !.splits = DefaultSplits(form.memberId, totalAmountCents)]
        /\ UnchangedStore
        /\ UNCHANGED <<adding, saving, completed, nextUuid, overlapped>>

setMemberId ==
    \E i \in 1..Len(members) :
        /\ form.isOpen
        /\ members[i] # form.memberId
        /\ form' = [form EXCEPT !.memberId = members[i],
                                !.splits = DefaultSplits(members[i], form.amount)]
        /\ UnchangedStore
        /\ UNCHANGED <<adding, saving, completed, nextUuid, overlapped>>

\* The split section is rendered only when totalAmountCents > 0 (line 200).
handleSplitAmountChange ==
    \E i \in 1..Len(members), newAmount \in SplitInputs :
        /\ form.isOpen
        /\ form.amount > 0
        /\ form' = [form EXCEPT !.splits =
                        [k \in 1..Len(form.splits) |->
                            IF form.splits[k].memberId = members[i]
                            THEN [form.splits[k] EXCEPT !.amount = newAmount]
                            ELSE form.splits[k]]]
        /\ UnchangedStore
        /\ UNCHANGED <<adding, saving, completed, nextUuid, overlapped>>

handleSplitEqually ==
    /\ form.isOpen
    /\ form.amount > 0
    /\ form' = IF form.amount <= 0 \/ Len(members) = 0
               THEN form
               ELSE [form EXCEPT !.splits = splitEqually(form.amount)]
    /\ UnchangedStore
    /\ UNCHANGED <<adding, saving, completed, nextUuid, overlapped>>

closeModal ==
    /\ form.isOpen
    /\ form' = resetForm
    /\ UnchangedStore
    /\ UNCHANGED <<adding, saving, completed, nextUuid, overlapped>>

handleSubmit ==
    \E description \in FormDescriptions, categoryId \in CategoryIds, date \in DateOffsets :
        /\ form.isOpen
        /\ nextUuid <= MaxUuid
        /\ ~( \/ Trim(description) = <<>>
              \/ form.amount <= 0
              \/ remainingAmount # 0 )
        /\ adding' = adding \cup
              { StartAddExpense([description |-> Trim(description),
                                 amount      |-> form.amount,
                                 categoryId  |-> categoryId,
                                 memberId    |-> form.memberId,
                                 date        |-> date,
                                 splits      |-> SelectSeq(form.splits, LAMBDA s : s.amount > 0)],
                                nextUuid) }
        /\ nextUuid' = nextUuid + 1
        /\ overlapped' = (overlapped \/ Busy)
        /\ form' = resetForm
        /\ UnchangedStore
        /\ UNCHANGED <<saving, completed>>

----------------------------------------------------------------------------
(* ImportReview.handleImportSelected *)

\* A reviewed statement row: the Oracle's fields, the payer defaulting to the
\* first member; amount is already Math.round(t.amount * 100).  The rows
\* differ from an ordinary row in at most one field.
OrdinaryRow ==
    [ description |-> <<"a">>, amount |-> 50, categoryId |-> "cat-1", date |-> 0,
      memberId |-> 1 ]

ImportRows ==
    { r \in [ description : ImportDescriptions, amount : ImportAmounts,
              categoryId : CategoryIds \cup {UnknownCategoryId},
              date : DateOffsets, memberId : {1} ] :
        Cardinality({f \in {"description", "amount", "categoryId", "date"} :
                        r[f] # OrdinaryRow[f]}) <= 1 }

ExpenseToImport(t) ==
    [ description |-> t.description, amount |-> t.amount, date |-> t.date,
      memberId |-> t.memberId, categoryId |-> t.categoryId,
      splits |-> << [memberId |-> t.memberId, amount |-> t.amount] >> ]

\* Promise.all(expensesToImport.map(onAddExpense)): every call runs its
\* synchronous part inside this one step, against the same snapshot.
handleImportSelected ==
    \E n \in 1..MaxImportRows :
      \E selected \in [1..n -> ImportRows] :
        /\ nextUuid + n - 1 <= MaxUuid
        /\ adding' = adding \cup
              { StartAddExpense(ExpenseToImport(selected[i]), nextUuid + i - 1) : i \in 1..n }
        /\ nextUuid' = nextUuid + n
        /\ overlapped' = (overlapped \/ Busy \/ n > 1)
        /\ UnchangedStore
        /\ UNCHANGED <<form, saving, completed>>

----------------------------------------------------------------------------
(* Specification of the expense path *)

\* The rows seedData writes into tables expenses and expense_splits.
InitStoreExpenses ==
    { [id |-> e.id, description |-> e.description, amount |-> e.amount,
       date |-> e.date, memberId |-> e.memberId,
       categoryId |-> e.categoryId, tripId |-> NoTrip]
      : e \in INITIAL_HOUSEHOLD_DATA.expenses }
    \cup
    { [id |-> e.id, description |-> e.description, amount |-> e.amount,
       date |-> e.date, memberId |-> e.memberId,
       categoryId |-> e.categoryId, tripId |-> "trip-1"]
      : e \in INITIAL_HOUSEHOLD_DATA.trips[1].expenses }

InitStoreSplits ==
    << [expenseId |-> 0, memberId |-> 1, amount |-> 20],
       [expenseId |-> 0, memberId |-> 2, amount |-> 20],
       [expenseId |-> -1, memberId |-> 1, amount |-> 30] >>

InitStore ==
    /\ members = INITIAL_HOUSEHOLD_DATA.members
    /\ dbExpenses = InitStoreExpenses
    /\ dbSplits = InitStoreSplits
    /\ dbBudgets = INITIAL_HOUSEHOLD_DATA.budgets
    /\ dbSubscriptions = INITIAL_HOUSEHOLD_DATA.subscriptions
    /\ dbNotifications = INITIAL_HOUSEHOLD_DATA.notifications
    /\ household = [ expenses      |-> INITIAL_HOUSEHOLD_DATA.expenses,
                     rules         |-> INITIAL_HOUSEHOLD_DATA.rules,
                     bucketGoals   |-> INITIAL_HOUSEHOLD_DATA.bucketGoals,
                     trips         |-> INITIAL_HOUSEHOLD_DATA.trips,
                     emailAlertsEnabled |-> INITIAL_HOUSEHOLD_DATA.emailAlertsEnabled,
                     monthlyIncome |-> INITIAL_HOUSEHOLD_DATA.monthlyIncome,
                     budgets       |-> INITIAL_HOUSEHOLD_DATA.budgets,
                     subscriptions |-> INITIAL_HOUSEHOLD_DATA.subscriptions,
                     notifications |-> INITIAL_HOUSEHOLD_DATA.notifications ]

\* The tables of the settings, as seedData writes them.
InitTables ==
    /\ dbRules = INITIAL_HOUSEHOLD_DATA.rules
    /\ dbBucketGoals = INITIAL_HOUSEHOLD_DATA.bucketGoals
    /\ dbTrips = [i \in 1..Len(INITIAL_HOUSEHOLD_DATA.trips) |->
                     [id |-> INITIAL_HOUSEHOLD_DATA.trips[i].id,
                      budget |-> INITIAL_HOUSEHOLD_DATA.trips[i].budget]]
    /\ dbSettings = [monthlyIncome |-> INITIAL_HOUSEHOLD_DATA.monthlyIncome,
                     emailAlertsEnabled |-> INITIAL_HOUSEHOLD_DATA.emailAlertsEnabled]

\* The other components as they are mounted: nothing open, nothing computed.
InitViews ==
    /\ goalModals = ClosedModals
    /\ budgetSuggestions = NoSuggestions
    /\ dashboard = NotRendered
    /\ suggested = NotCalled
    /\ fileImport = NothingImported
    /\ trend = NoTrend
    /\ csvExport = NotExported

\* No call is pending, and initDB has run: db is open, its image is the
\* file kept in IndexedDB, and the page shows the household.
InitCalls ==
    /\ adding = {}
    /\ saving = {}
    /\ completed = {}
    /\ overlapped = FALSE
    /\ storage = [db |-> TRUE, hasFile |-> TRUE, file |-> Snapshot, page |-> "ready"]

Init ==
    /\ InitStore
    /\ categories = INITIAL_HOUSEHOLD_DATA.categories
    /\ InitTables
    /\ InitViews
    /\ InitCalls
    /\ form = [isOpen |-> FALSE, amount |-> 0, memberId |-> 1, splits |-> <<>>]
    /\ nextUuid = 1

Next ==
    \/ handleImportSelected
    \/ AnomalyCheckReturns
    \/ ReloadData

Spec == Init /\ [][Next]_vars

----------------------------------------------------------------------------
(* db.addExpense when one of its INSERT statements throws *)

\* The rows written before the statement number failedAt (0-based: the
\* expense row, then the split rows, then the notification rows) throws.
WrittenBeforeFailure(newExpense, notifications, failedAt) ==
    LET splitsDone == IF failedAt - 1 < 0 THEN 0
                      ELSE IF failedAt - 1 > Len(newExpense.splits)
                      THEN Len(newExpense.splits) ELSE failedAt - 1
        notificationsDone ==
            IF failedAt - 1 - Len(newExpense.splits) < 0 THEN 0
            ELSE failedAt - 1 - Len(newExpense.splits)
    IN  [ expenses |-> IF failedAt >= 1
                       THEN { [id |-> newExpense.id, description |-> newExpense.description,
                               amount |-> newExpense.amount, date |-> newExpense.date,
                               memberId |-> newExpense.memberId,
                               categoryId |-> newExpense.categoryId, tripId |-> NoTrip] }
                       ELSE {},
          splits |-> [i \in 1..splitsDone |->
                        [expenseId |-> newExpense.id,
                         memberId  |-> newExpense.splits[i].memberId,
                         amount    |-> newExpense.splits[i].amount]],
          notifications |-> SubSeq(notifications, 1, notificationsDone) ]

\* Variant: no transaction, the rows written before the failure stay.
addExpenseFails_noRollback(newExpense, notifications, failedAt) ==
    LET written == WrittenBeforeFailure(newExpense, notifications, failedAt)
    IN  /\ dbExpenses' = dbExpenses \cup written.expenses
        /\ dbSplits' = dbSplits \o written.splits
        /\ dbNotifications' = dbNotifications \o written.notifications

\* lines 250-268: BEGIN TRANSACTION, the statements up to the one that
\* throws, and ROLLBACK in the catch block, which undoes what was written.
addExpenseFails(newExpense, notifications, failedAt) ==
    LET written == WrittenBeforeFailure(newExpense, notifications, failedAt)
        rolledBack == [ expenses |-> (dbExpenses \cup written.expenses) \ written.expenses,
                        splits |-> SubSeq(dbSplits \o written.splits, 1, Len(dbSplits)),
                        notifications |-> SubSeq(dbNotifications \o written.notifications,
                                                 1, Len(dbNotifications)) ]
    IN  /\ dbExpenses' = rolledBack.expenses
        /\ dbSplits' = rolledBack.splits
        /\ dbNotifications' = rolledBack.notifications

\* The Oracle settles and a statement of db.addExpense throws: the call does
\* not save, and line 93 reloads.
AddExpenseInsertFails ==
    \E t \in adding, outcome \in AnomalyOutcomes :
        LET checked == AnomalyDetectionCheck(t.notifications, t.expense.id, outcome)
        IN  \E failedAt \in 0..Len(t.expense.splits) + Len(checked.notifications) :
              /\ ~checked.threw
              /\ adding' = adding \ {t}
              /\ addExpenseFails(t.expense, checked.notifications, failedAt)
              /\ saving' = saving \cup
                    {[op |-> "addExpense", ref |-> t.expense.id, detail |-> RolledBack]}
              /\ UNCHANGED <<storage, members, dbBudgets, dbSubscriptions, household, form,
                             nextUuid, overlapped, completed>>
              /\ UNCHANGED <<settingsTables, views>>

\* Two submissions are left: the counter of fresh ids starts one below its
\* last value.
InitAtomic ==
    /\ InitStore
    /\ categories = INITIAL_HOUSEHOLD_DATA.categories
    /\ InitTables
    /\ InitViews
    /\ InitCalls
    /\ form = [isOpen |-> FALSE, amount |-> 0, memberId |-> 1, splits |-> <<>>]
    /\ nextUuid = MaxUuid - 1

NextAtomic ==
    \/ handleImportSelected
    \/ AnomalyCheckReturns
    \/ AddExpenseInsertFails
    \/ ReloadData

SpecAtomic == InitAtomic /\ [][NextAtomic]_vars

\* A household that already holds one more expense of cat-1, dated last
\* month, this month or next month.
EarlierExpenseDates == {-1, 0, 1}

InitMonth ==
    /\ members = INITIAL_HOUSEHOLD_DATA.members
    /\ \E date \in EarlierExpenseDates :
          /\ dbExpenses = InitStoreExpenses \cup
                { [id |-> -2, description |-> <<"a">>, amount |-> 20, date |-> date,
                   memberId |-> 1, categoryId |-> "cat-1", tripId |-> NoTrip] }
          /\ dbSplits = InitStoreSplits \o
                << [expenseId |-> -2, memberId |-> 1, amount |-> 20] >>
    /\ InitStore!4 /\ InitStore!5 /\ InitStore!6
    /\ categories = INITIAL_HOUSEHOLD_DATA.categories
    /\ InitTables
    /\ household = loadHouseholdData
    /\ InitViews
    /\ InitCalls
    /\ form = [isOpen |-> FALSE, amount |-> 0, memberId |-> 1, splits |-> <<>>]
    /\ nextUuid = 1

SpecMonth == InitMonth /\ [][Next]_vars

----------------------------------------------------------------------------
(* Specification of the Add Expense form: one submission *)

\* The counter of fresh ids starts at its last value: one submission.
InitForm ==
    /\ InitStore
    /\ categories = INITIAL_HOUSEHOLD_DATA.categories
    /\ InitTables
    /\ InitViews
    /\ InitCalls
    /\ form = [isOpen |-> FALSE, amount |-> 0, memberId |-> 1, splits |-> <<>>]
    /\ nextUuid = MaxUuid

NextForm ==
    \/ OpenAddExpenseModal
    \/ setAmount
    \/ setMemberId
    \/ handleSplitAmountChange
    \/ handleSplitEqually
    \/ closeModal
    \/ handleSubmit
    \/ AnomalyCheckReturns
    \/ ReloadData

SpecForm == InitForm /\ [][NextForm]_vars

----------------------------------------------------------------------------
(* services/db.updateHousehold and the handlers that call it through
   App.updateHouseholdData *)

\* PRIMARY KEY: no two rows of a list carry the same id.
UniqueIdsSeq(rows) ==
    \A i, j \in 1..Len(rows) : rows[i].id = rows[j].id => i = j

UniqueIdsSet(rows) ==
    \A x, y \in rows : x.id = y.id => x = y

\* budgets.categoryId is UNIQUE.
UniqueCategoryIds(rows) ==
    \A x, y \in rows : x.categoryId = y.categoryId => x = y

\* The trip expenses of data.trips as rows of table expenses.
TripExpenseRows(trips) ==
    UNION { { [id |-> e.id, description |-> e.description, amount |-> e.amount,
               date |-> e.date, memberId |-> e.memberId,
               categoryId |-> e.categoryId, tripId |-> trips[i].id]
              : e \in trips[i].expenses } : i \in 1..Len(trips) }

\* The split rows inserted for a set of expenses; the order of the rows of
\* different expenses is not observable, a load selects them by expense.
RECURSIVE SplitRowsToInsert(_)
SplitRowsToInsert(expenses) ==
    IF expenses = {} THEN <<>>
    ELSE LET e == CHOOSE x \in expenses : TRUE
         IN  [k \in 1..Len(e.splits) |->
                 [expenseId |-> e.id, memberId |-> e.splits[k].memberId,
                  amount |-> e.splits[k].amount]]
             \o SplitRowsToInsert(expenses \ {e})

\* An INSERT of the call violates a key of its table: the catch block rolls
\* the transaction back.
InsertThrows(data) ==
    \/ "rules" \in DOMAIN data /\ ~UniqueIdsSeq(data.rules)
    \/ "budgets" \in DOMAIN data
          /\ ~(UniqueIdsSet(data.budgets) /\ UniqueCategoryIds(data.budgets))
    \/ "bucketGoals" \in DOMAIN data /\ ~UniqueIdsSeq(data.bucketGoals)
    \/ "trips" \in DOMAIN data
          /\ \/ ~UniqueIdsSeq(data.trips)
             \/ ~UniqueIdsSet(TripExpenseRows(data.trips)
                              \cup {x \in dbExpenses : x.tripId = NoTrip})
    \/ "subscriptions" \in DOMAIN data /\ ~UniqueIdsSet(data.subscriptions)

\* Variant: the budgets branch inserts without clearing the table, into a
\* table without keys.
updateHousehold_noDelete(data) ==
    /\ dbBudgets' = IF "budgets" \in DOMAIN data
                    THEN dbBudgets \cup data.budgets ELSE dbBudgets
    /\ dbSubscriptions' =
          IF "subscriptions" \in DOMAIN data THEN data.subscriptions ELSE dbSubscriptions
    /\ dbRules' = IF "rules" \in DOMAIN data THEN data.rules ELSE dbRules
    /\ dbBucketGoals' =
          IF "bucketGoals" \in DOMAIN data THEN data.bucketGoals ELSE dbBucketGoals
    /\ dbSettings' =
          [monthlyIncome |-> IF "monthlyIncome" \in DOMAIN data
                             THEN data.monthlyIncome ELSE dbSettings.monthlyIncome,
           emailAlertsEnabled |-> IF "emailAlertsEnabled" \in DOMAIN data
                                  THEN data.emailAlertsEnabled
                                  ELSE dbSettings.emailAlertsEnabled]
    /\ UNCHANGED <<dbTrips, dbExpenses, dbSplits, dbNotifications>>

\* Variant: the subscriptions branch runs when data.budgets is present.
updateHousehold_wrongBranch(data) ==
    /\ dbBudgets' = IF "budgets" \in DOMAIN data THEN data.budgets ELSE dbBudgets
    /\ dbSubscriptions' =
          IF "subscriptions" \in DOMAIN data THEN data.subscriptions
          ELSE IF "budgets" \in DOMAIN data THEN {} ELSE dbSubscriptions
    /\ dbRules' = IF "rules" \in DOMAIN data THEN data.rules ELSE dbRules
    /\ dbBucketGoals' =
          IF "bucketGoals" \in DOMAIN data THEN data.bucketGoals ELSE dbBucketGoals
    /\ dbSettings' =
          [monthlyIncome |-> IF "monthlyIncome" \in DOMAIN data
                             THEN data.monthlyIncome ELSE dbSettings.monthlyIncome,
           emailAlertsEnabled |-> IF "emailAlertsEnabled" \in DOMAIN data
                                  THEN data.emailAlertsEnabled
                                  ELSE dbSettings.emailAlertsEnabled]
    /\ UNCHANGED <<dbTrips, dbExpenses, dbSplits, dbNotifications>>

\* data is a Partial<Household>: only the fields in its domain are present.
\* There is no branch for data.expenses.  Every branch deletes the rows of
\* its table and inserts the supplied ones; the trips branch deletes the
\* trip expenses but not their split rows (foreign keys are not enforced).
\* The settings branch reads the current row inside the transaction.
updateHousehold(data) ==
    IF InsertThrows(data)
    THEN UNCHANGED <<dbRules, dbBudgets, dbBucketGoals, dbTrips, dbSubscriptions,
                     dbSettings, dbExpenses, dbSplits, dbNotifications>>
    ELSE
    /\ dbRules' = IF "rules" \in DOMAIN data THEN data.rules ELSE dbRules
    /\ dbBudgets' = IF "budgets" \in DOMAIN data THEN data.budgets ELSE dbBudgets
    /\ dbBucketGoals' =
          IF "bucketGoals" \in DOMAIN data THEN data.bucketGoals ELSE dbBucketGoals
    /\ IF "trips" \in DOMAIN data
       THEN /\ dbTrips' = [i \in 1..Len(data.trips) |->
                              [id |-> data.trips[i].id, budget |-> data.trips[i].budget]]
            /\ dbExpenses' = {x \in dbExpenses : x.tripId = NoTrip}
                                \cup TripExpenseRows(data.trips)
            /\ dbSplits' = dbSplits \o
                   SplitRowsToInsert(UNION {data.trips[i].expenses : i \in 1..Len(data.trips)})
       ELSE UNCHANGED <<dbTrips, dbExpenses, dbSplits>>
    /\ dbSubscriptions' =
          IF "subscriptions" \in DOMAIN data THEN data.subscriptions ELSE dbSubscriptions
    /\ dbSettings' =
          [monthlyIncome |-> IF "monthlyIncome" \in DOMAIN data
                             THEN data.monthlyIncome ELSE dbSettings.monthlyIncome,
           emailAlertsEnabled |-> IF "emailAlertsEnabled" \in DOMAIN data
                                  THEN data.emailAlertsEnabled
                                  ELSE dbSettings.emailAlertsEnabled]
    /\ UNCHANGED dbNotifications

\* db.updateHousehold writes at once; its reload waits for the mirror write.
updateHouseholdData(data, call) ==
    /\ updateHousehold(data)
    /\ saving' = saving \cup
          {IF InsertThrows(data) THEN [call EXCEPT !.detail = RolledBack] ELSE call}
    /\ overlapped' = (overlapped \/ Busy)
    /\ UNCHANGED <<storage, members, categories, household, form, adding, completed>>

handleDeleteExpense ==
    \E expenseId \in Ids(household.expenses) :
        /\ updateHouseholdData(
              [expenses |-> {exp \in household.expenses : exp.id # expenseId}],
              [op |-> "deleteExpense", ref |-> expenseId, detail |-> ""])
        /\ UNCHANGED <<nextUuid, views>>

handleAddSubscription ==
    \E description \in SuggestedDescriptions :
        /\ nextUuid <= MaxUuid
        /\ updateHouseholdData(
              [subscriptions |-> household.subscriptions \cup
                                    {[id |-> nextUuid, description |-> description]}],
              [op |-> "addSubscription", ref |-> nextUuid, detail |-> description])
        /\ nextUuid' = nextUuid + 1
        /\ UNCHANGED views

handleBudgetChange ==
    \E categoryId \in CategoryIds, amountInCents \in BudgetInputs :
        LET existingBudget == {b \in household.budgets : b.categoryId = categoryId}
            newBudgets ==
                IF existingBudget # {}
                THEN { IF b.categoryId = categoryId
                       THEN [b EXCEPT !.amount = amountInCents] ELSE b
                       : b \in household.budgets }
                ELSE household.budgets \cup
                        {[id |-> "bud-" \o categoryId, categoryId |-> categoryId,
                          amount |-> amountInCents]}
        IN  /\ updateHouseholdData([budgets |-> newBudgets],
                                   [op |-> "budgetChange", ref |-> 0, detail |-> categoryId])
            /\ UNCHANGED <<nextUuid, views>>

NextStore ==
    \/ handleDeleteExpense
    \/ handleAddSubscription
    \/ handleBudgetChange
    \/ ReloadData

SpecStore == Init /\ [][NextStore]_vars

----------------------------------------------------------------------------
(* Specification of db.updateHousehold called with one field group, as
   App.updateHouseholdData calls it.  The supplied lists are lists a caller
   can build: their ids are distinct, and so are the categories of budgets. *)

NetflixRule == [id |-> 1, keyword |-> <<"n", "e", "t">>, categoryId |-> "cat-5"]

RuleLists ==
    LET seed == INITIAL_HOUSEHOLD_DATA.rules[1]
    IN  { <<>>, <<seed>>, <<NetflixRule>>, <<seed, NetflixRule>>, <<NetflixRule, seed>> }

BudgetLists ==
    { bs \in SUBSET { [id |-> "bud-1", categoryId |-> "cat-1", amount |-> 100],
                      [id |-> "bud-1", categoryId |-> "cat-1", amount |-> 50],
                      [id |-> "bud-cat-5", categoryId |-> "cat-5", amount |-> 50] } :
        UniqueIdsSet(bs) /\ UniqueCategoryIds(bs) }

GoalLists ==
    LET seed  == INITIAL_HOUSEHOLD_DATA.bucketGoals[1]
        other == [id |-> 1, name |-> <<"L">>, targetAmount |-> 500, currentAmount |-> 0]
    IN  { <<>>, <<seed>>, <<[seed EXCEPT !.currentAmount = 700]>>, <<seed, other>> }

SubscriptionLists ==
    SUBSET (INITIAL_HOUSEHOLD_DATA.subscriptions \cup {[id |-> 1, description |-> "Gym"]})

SingleGroupUpdates ==
    {[rules |-> x] : x \in RuleLists}
    \cup {[budgets |-> x] : x \in BudgetLists}
    \cup {[bucketGoals |-> x] : x \in GoalLists}
    \cup {[subscriptions |-> x] : x \in SubscriptionLists}
    \cup {[monthlyIncome |-> x] : x \in {0, 90}}
    \cup {[emailAlertsEnabled |-> x] : x \in BOOLEAN}

callUpdateHousehold ==
    \E data \in SingleGroupUpdates :
        LET n == Cardinality(saving \cup completed)
        IN  /\ n < MaxUpdates
            /\ updateHouseholdData(data,
                  [op |-> "updateHousehold", ref |-> n,
                   detail |-> CHOOSE f \in DOMAIN data : TRUE])
            /\ UNCHANGED <<nextUuid, views>>

NextUpdate ==
    \/ callUpdateHousehold
    \/ ReloadData

SpecUpdate == Init /\ [][NextUpdate]_vars

----------------------------------------------------------------------------
(* Rupee fields.  A decimal number of rupees is kept in thousandths of a
   rupee and a number of cents in tenths of a cent, which are the same
   count: x * 100 changes the reading, Math.round makes whole cents of it. *)

TimesHundred(rupees) == rupees

MathRound(cents) == ((cents + 5) \div 10) * 10

WholeCents(cents) == cents % 10 = 0

----------------------------------------------------------------------------
(* BucketGoals, SmartTransferModal, EditGoalModal.  A modal covers the page:
   a second modal opens only after the first has closed. *)

OracleTransferAmounts == {505}         \* result.amount: 0.505 rupees
TypedTransferAmounts == {-500, 0, 500} \* parseFloat(e.target.value)
GoalNames == {<<>>, <<Space, "C">>}
TypedTargetAmounts == {0, 1000, 1004}  \* parseFloat(targetAmount)

\* The calls of one behaviour are numbered; MaxUpdates bounds them.
GoalCall(op) ==
    [op |-> op, ref |-> Cardinality(saving \cup completed), detail |-> ""]

UnchangedByGoals ==
    UNCHANGED <<budgetSuggestions, dashboard, suggested, fileImport, trend, csvExport>>

UnchangedByModal ==
    UNCHANGED <<storage, members, categories, dbRules, dbBucketGoals, dbTrips, dbSettings,
                dbExpenses, dbSplits, dbBudgets, dbSubscriptions, dbNotifications,
                household, form, adding, saving, completed, nextUuid, overlapped,
                budgetSuggestions, dashboard, suggested, fileImport, trend, csvExport>>

handleOpenSmartTransfer ==
    \E i \in 1..Len(household.bucketGoals) :
        /\ goalModals.open = "none"
        /\ goalModals' = [open |-> "transfer", goal |-> household.bucketGoals[i],
                          isLoading |-> TRUE, transferAmount |-> 0]
        /\ UnchangedByModal

\* fetchSuggestion: the Oracle answers (lines 49-50, 55).
fetchSuggestion ==
    \E amount \in OracleTransferAmounts :
        /\ goalModals.open = "transfer"
        /\ goalModals.isLoading
        /\ goalModals' = [goalModals EXCEPT !.isLoading = FALSE, !.transferAmount = amount]
        /\ UnchangedByModal

\* The amount field (line 107), disabled while loading.
setTransferAmount ==
    \E amount \in TypedTransferAmounts :
        /\ goalModals.open = "transfer"
        /\ ~goalModals.isLoading
        /\ goalModals' = [goalModals EXCEPT !.transferAmount = amount]
        /\ UnchangedByModal

\* Variant: the transfer replaces the saved amount instead of adding to it.
ConfirmedGoals_replace(goals, goal, transferAmount) ==
    [i \in 1..Len(goals) |->
        IF goals[i].id = goal.id
        THEN [goals[i] EXCEPT !.currentAmount = TimesHundred(transferAmount)]
        ELSE goals[i]]

\* lines 65-69: updatedGoals.
ConfirmedGoals(goals, goal, transferAmount) ==
    [i \in 1..Len(goals) |->
        IF goals[i].id = goal.id
        THEN [goals[i] EXCEPT !.currentAmount = @ + TimesHundred(transferAmount)]
        ELSE goals[i]]

\* The button is disabled while loading and for an amount that is null or
\* not above 0, where the handler returns at once.
handleConfirmTransfer ==
    /\ goalModals.open = "transfer"
    /\ ~goalModals.isLoading
    /\ ~(goalModals.transferAmount <= 0)
    /\ Cardinality(saving \cup completed) < MaxUpdates
    /\ updateHouseholdData(
          [bucketGoals |-> ConfirmedGoals(household.bucketGoals, goalModals.goal,
                                          goalModals.transferAmount)],
          GoalCall("confirmTransfer"))
    /\ goalModals' = ClosedModals
    /\ UnchangedByGoals
    /\ UNCHANGED nextUuid

\* The pencil of a goal card, or Create New Goal (goal: null).
handleOpenEditModal ==
    \E goal \in {household.bucketGoals[i] : i \in 1..Len(household.bucketGoals)}
                \cup {NoGoal} :
        /\ goalModals.open = "none"
        /\ goalModals' = [open |-> "edit", goal |-> goal, isLoading |-> FALSE,
                          transferAmount |-> 0]
        /\ UnchangedByModal

handleCloseModals ==
    /\ goalModals.open # "none"
    /\ goalModals' = ClosedModals
    /\ UnchangedByModal

\* EditGoalModal.handleSubmit: goal is the object the modal was opened with.
EditGoalSubmit ==
    \E name \in GoalNames, targetAmount \in TypedTargetAmounts :
        LET goal == goalModals.goal
            updatedGoal == [goal EXCEPT !.name = Trim(name),
                                        !.targetAmount = MathRound(TimesHundred(targetAmount))]
            newGoal == [id |-> nextUuid, name |-> Trim(name),
                        targetAmount |-> MathRound(TimesHundred(targetAmount)),
                        currentAmount |-> 0]
            updatedGoals ==
                IF goal # NoGoal
                THEN [i \in 1..Len(household.bucketGoals) |->
                        IF household.bucketGoals[i].id = goal.id
                        THEN updatedGoal ELSE household.bucketGoals[i]]
                ELSE Append(household.bucketGoals, newGoal)
        IN  /\ goalModals.open = "edit"
            /\ ~(Trim(name) = <<>> \/ targetAmount <= 0)
            /\ Cardinality(saving \cup completed) < MaxUpdates
            /\ goal = NoGoal => nextUuid <= MaxUuid
            /\ updateHouseholdData([bucketGoals |-> updatedGoals],
                                   GoalCall(IF goal # NoGoal THEN "editGoal" ELSE "createGoal"))
            /\ nextUuid' = IF goal = NoGoal THEN nextUuid + 1 ELSE nextUuid
            /\ goalModals' = ClosedModals
            /\ UnchangedByGoals

EditGoalDelete ==
    /\ goalModals.open = "edit"
    /\ goalModals.goal # NoGoal
    /\ Cardinality(saving \cup completed) < MaxUpdates
    /\ updateHouseholdData(
          [bucketGoals |-> SelectSeq(household.bucketGoals,
                                     LAMBDA g : g.id # goalModals.goal.id)],
          GoalCall("deleteGoal"))
    /\ goalModals' = ClosedModals
    /\ UnchangedByGoals
    /\ UNCHANGED nextUuid

NextGoals ==
    \/ handleOpenSmartTransfer
    \/ fetchSuggestion
    \/ setTransferAmount
    \/ handleConfirmTransfer
    \/ handleOpenEditModal
    \/ handleCloseModals
    \/ EditGoalSubmit
    \/ EditGoalDelete
    \/ ReloadData

SpecGoals == Init /\ [][NextGoals]_vars

----------------------------------------------------------------------------
(* Settings: the budgets.  A suggested amount is a number of rupees and
   amount * 100 its cents; the suggestions may name any category id, known
   or not, and the same one twice. *)

MaxSuggestions == 2

SuggestedBudgets ==
    [categoryId : CategoryIds \cup {UnknownCategoryId}, amount : {1}]

SuggestionLists ==
    UNION { [1..n -> SuggestedBudgets] : n \in 0..MaxSuggestions }

\* handleGenerateBudgetsFromSpending / FromIncome: the suggestions are
\* cleared, then the Oracle answers or throws.
handleGenerateBudgets ==
    \E threw \in BOOLEAN, suggestions \in SuggestionLists :
        /\ budgetSuggestions' = IF threw THEN NoSuggestions
                                ELSE [isNull |-> FALSE, list |-> suggestions]
        /\ UNCHANGED <<storage, members, categories, dbRules, dbBucketGoals, dbTrips, dbSettings,
                       dbExpenses, dbSplits, dbBudgets, dbSubscriptions, dbNotifications,
                       household, form, adding, saving, completed, nextUuid, overlapped,
                       goalModals, dashboard, suggested, fileImport, trend, csvExport>>

\* lines 473-481: newBudgets, one budget for each category of the household.
AppliedBudgets(hh, suggestions) ==
    { LET category == categories[k]
          matching == {i \in 1..Len(suggestions) : suggestions[i].categoryId = category.id}
          existing == {b \in hh.budgets : b.categoryId = category.id}
      IN  IF matching # {}
          THEN LET suggestion == suggestions[CHOOSE i \in matching : \A j \in matching : i <= j]
               IN  [id |-> IF existing # {} THEN (CHOOSE b \in existing : TRUE).id
                           ELSE "bud-" \o category.id,
                    categoryId |-> category.id,
                    amount |-> suggestion.amount * 100]
          ELSE IF existing # {} THEN CHOOSE b \in existing : TRUE
          ELSE [id |-> "bud-" \o category.id, categoryId |-> category.id, amount |-> 0]
      : k \in 1..Len(categories) }

handleApplySuggestions ==
    /\ ~budgetSuggestions.isNull
    /\ updateHouseholdData([budgets |-> AppliedBudgets(household, budgetSuggestions.list)],
                           [op |-> "applySuggestions", ref |-> 0, detail |-> ""])
    /\ budgetSuggestions' = NoSuggestions
    /\ UNCHANGED <<nextUuid, goalModals, dashboard, suggested, fileImport, trend, csvExport>>

NextBudgets ==
    \/ handleBudgetChange
    \/ handleGenerateBudgets
    \/ handleApplySuggestions
    \/ ReloadData

SpecBudgets == Init /\ [][NextBudgets]_vars

----------------------------------------------------------------------------
(* services/db: initDB and the file in IndexedDB, over several page loads *)

MaxSessionWrites == 2   \* budget changes in one behaviour of SpecSession

\* The outcomes of one initDB call: initSqlJs or openIDB rejects; the get
\* request of loadDbFromIndexedDB fires onerror; it fires onsuccess.
InitDBOutcomes == {"throws", "get fails", "get succeeds"}

\* createSchema and seedData: the tables of a new database.
SeedImage ==
    [expenses |-> InitStoreExpenses, splits |-> InitStoreSplits,
     budgets |-> INITIAL_HOUSEHOLD_DATA.budgets,
     subscriptions |-> INITIAL_HOUSEHOLD_DATA.subscriptions,
     notifications |-> INITIAL_HOUSEHOLD_DATA.notifications,
     rules |-> INITIAL_HOUSEHOLD_DATA.rules,
     bucketGoals |-> INITIAL_HOUSEHOLD_DATA.bucketGoals,
     trips |-> [i \in 1..Len(INITIAL_HOUSEHOLD_DATA.trips) |->
                  [id |-> INITIAL_HOUSEHOLD_DATA.trips[i].id,
                   budget |-> INITIAL_HOUSEHOLD_DATA.trips[i].budget]],
     settings |-> [monthlyIncome |-> INITIAL_HOUSEHOLD_DATA.monthlyIncome,
                   emailAlertsEnabled |-> INITIAL_HOUSEHOLD_DATA.emailAlertsEnabled]]

\* new SQL.Database(image): the tables are those of the image.
Database(image) ==
    /\ dbExpenses' = image.expenses
    /\ dbSplits' = image.splits
    /\ dbBudgets' = image.budgets
    /\ dbSubscriptions' = image.subscriptions
    /\ dbNotifications' = image.notifications
    /\ dbRules' = image.rules
    /\ dbBucketGoals' = image.bucketGoals
    /\ dbTrips' = image.trips
    /\ dbSettings' = image.settings

\* lines 34-43: the saved file, or null when there is none or when the get
\* request fails.
loadDbFromIndexedDB(outcome) ==
    IF outcome = "get succeeds" /\ storage.hasFile
    THEN [isNull |-> FALSE, value |-> storage.file]
    ELSE [isNull |-> TRUE, value |-> SeedImage]

\* What a call that does nothing leaves: db, the file and the tables as
\* they are.
Untouched ==
    [db |-> storage.db, hasFile |-> storage.hasFile, file |-> storage.file,
     tables |-> Snapshot]

\* lines 129-145: db, the file and the tables after the call.  saved:
\* saveDbToIndexedDB resolves (when it rejects, the catch block logs and db
\* stays the seeded database).
initDB(outcome, saved) ==
    IF storage.db \/ outcome = "throws"
    THEN Untouched
    ELSE LET dbData == loadDbFromIndexedDB(outcome)
         IN  IF ~dbData.isNull
             THEN [Untouched EXCEPT !.db = TRUE, !.tables = dbData.value]
             ELSE IF saved
             THEN [db |-> TRUE, hasFile |-> TRUE, file |-> SeedImage, tables |-> SeedImage]
             ELSE [Untouched EXCEPT !.db = TRUE, !.tables = SeedImage]

UnchangedByPageLoad ==
    /\ UNCHANGED <<members, categories, form, adding, saving, completed, nextUuid,
                   overlapped>>
    /\ UNCHANGED views

\* The page is opened: the module is evaluated (line 8, db = null) and App is
\* mounted with household null.  While storage.db is FALSE the tables are
\* not read, and household is read only when the page is ready.
openPage ==
    /\ storage.page = "closed"
    /\ storage' = [storage EXCEPT !.db = FALSE, !.page = "initDB"]
    /\ UNCHANGED <<dbExpenses, dbSplits, dbBudgets, dbSubscriptions, dbNotifications,
                   dbRules, dbBucketGoals, dbTrips, dbSettings, household>>
    /\ UnchangedByPageLoad

\* App.tsx line 42: the effect awaits db.initDB().
initEffect ==
    /\ storage.page = "initDB"
    /\ \E outcome \in InitDBOutcomes, saved \in BOOLEAN :
          LET after == initDB(outcome, saved)
          IN  /\ Database(after.tables)
              /\ storage' = [db |-> after.db, hasFile |-> after.hasFile,
                             file |-> after.file, page |-> "reloadData"]
    /\ UNCHANGED household
    /\ UnchangedByPageLoad

\* App.tsx line 43 and part_004 lines 157-159: reloadData; loadHouseholdData
\* calls initDB again when db is null, and returns null when it still is.
reloadData ==
    /\ storage.page = "reloadData"
    /\ \E outcome \in InitDBOutcomes, saved \in BOOLEAN :
          LET after == initDB(outcome, saved)
          IN  /\ Database(after.tables)
              /\ storage' = [db |-> after.db, hasFile |-> after.hasFile,
                             file |-> after.file, page |-> "ready"]
              /\ household' = IF after.db THEN loadHouseholdData' ELSE household
    /\ UnchangedByPageLoad

\* The household is shown and a budget field is edited.
SessionBudgetChange ==
    /\ storage.page = "ready"
    /\ storage.db
    /\ Cardinality(completed) < MaxSessionWrites
    /\ handleBudgetChange

\* The tab is closed or reloaded once nothing is pending.
closePage ==
    /\ storage.page = "ready"
    /\ ~Busy
    /\ storage' = [storage EXCEPT !.page = "closed"]
    /\ UNCHANGED <<dbExpenses, dbSplits, dbBudgets, dbSubscriptions, dbNotifications,
                   dbRules, dbBucketGoals, dbTrips, dbSettings, household>>
    /\ UnchangedByPageLoad

\* The first visit: nothing is saved and the page is not open yet.
InitSession ==
    /\ InitStore
    /\ categories = INITIAL_HOUSEHOLD_DATA.categories
    /\ InitTables
    /\ InitViews
    /\ InitCalls!1
    /\ InitCalls!2
    /\ InitCalls!3
    /\ InitCalls!4
    /\ storage = [db |-> FALSE, hasFile |-> FALSE, file |-> SeedImage, page |-> "closed"]
    /\ form = [isOpen |-> FALSE, amount |-> 0, memberId |-> 1, splits |-> <<>>]
    /\ nextUuid = 1

NextSession ==
    \/ openPage
    \/ initEffect
    \/ reloadData
    \/ SessionBudgetChange
    \/ ReloadData
    \/ closePage

SpecSession == InitSession /\ [][NextSession]_vars

----------------------------------------------------------------------------
(* EditTripModal: create, edit and delete a trip.  The modal is opened on a
   trip of the snapshot and submitted in one step. *)

TypedTripBudgets == {0, 400, 900}    \* Math.round(parseFloat(budget) * 100)

TripOps == {"editTrip", "createTrip", "deleteTrip"}

TripCall(op) ==
    [op |-> op, ref |-> Cardinality(saving \cup completed), detail |-> ""]

\* lines 41-50: the trip is replaced by a copy with the typed fields; its
\* expenses stay as they were loaded.
EditTripSubmit ==
    \E k \in 1..Len(household.trips), budget \in TypedTripBudgets :
        LET trip == household.trips[k]
            updatedTrip == [trip EXCEPT !.budget = budget]
            updatedTrips == [i \in 1..Len(household.trips) |->
                               IF household.trips[i].id = trip.id
                               THEN updatedTrip ELSE household.trips[i]]
        IN  /\ Cardinality(saving \cup completed) < MaxUpdates
            /\ updateHouseholdData([trips |-> updatedTrips], TripCall("editTrip"))
            /\ UNCHANGED <<nextUuid, views>>

\* lines 51-62: a new trip without expenses is appended
CreateTripSubmit ==
    \E budget \in TypedTripBudgets :
        LET newTrip == [id |-> "trip-" \o ToString(nextUuid), budget |-> budget,
                        expenses |-> {}]
        IN  /\ Cardinality(saving \cup completed) < MaxUpdates
            /\ nextUuid <= MaxUuid
            /\ updateHouseholdData([trips |-> Append(household.trips, newTrip)],
                                   TripCall("createTrip"))
            /\ nextUuid' = nextUuid + 1
            /\ UNCHANGED views

\* lines 67-73
EditTripDelete ==
    \E k \in 1..Len(household.trips) :
        LET trip == household.trips[k]
        IN  /\ Cardinality(saving \cup completed) < MaxUpdates
            /\ updateHouseholdData(
                  [trips |-> SelectSeq(household.trips, LAMBDA t : t.id # trip.id)],
                  TripCall("deleteTrip"))
            /\ UNCHANGED <<nextUuid, views>>

NextTrips ==
    \/ EditTripSubmit
    \/ CreateTripSubmit
    \/ EditTripDelete
    \/ ReloadData

SpecTrips == Init /\ [][NextTrips]_vars

----------------------------------------------------------------------------
(* utils/expenseUtils.suggestCategory *)

MaxRules == 2

UpperCaseLetters ==
    << "A", "B", "C", "D", "E", "F", "G", "H", "I", "J", "K", "L", "M",
       "N", "O", "P", "Q", "R", "S", "T", "U", "V", "W", "X", "Y", "Z" >>

LowerCaseLetters ==
    << "a", "b", "c", "d", "e", "f", "g", "h", "i", "j", "k", "l", "m",
       "n", "o", "p", "q", "r", "s", "t", "u", "v", "w", "x", "y", "z" >>

\* String.prototype.toLowerCase
toLowerCase(text) ==
    [k \in 1..Len(text) |->
        IF \E i \in 1..26 : UpperCaseLetters[i] = text[k]
        THEN LowerCaseLetters[CHOOSE i \in 1..26 : UpperCaseLetters[i] = text[k]]
        ELSE text[k]]

\* String.prototype.includes
includes(text, searchString) ==
    \E start \in 1..Len(text) + 1 :
        /\ start + Len(searchString) - 1 <= Len(text)
        /\ SubSeq(text, start, start + Len(searchString) - 1) = searchString

Undefined == "undefined"

\* Variant: the loop does not return at the first match, the last one wins.
RECURSIVE suggestCategory_lastMatch(_, _, _)
suggestCategory_lastMatch(description, rules, cats) ==
    IF rules = <<>> THEN Undefined
    ELSE LET rule == rules[Len(rules)]
         IN  IF includes(toLowerCase(description), toLowerCase(rule.keyword))
             THEN rule.categoryId
             ELSE suggestCategory_lastMatch(description, SubSeq(rules, 1, Len(rules) - 1), cats)

\* The for loop over rules; the parameter categories is not read.
RECURSIVE suggestCategory(_, _, _)
suggestCategory(description, rules, cats) ==
    IF rules = <<>> THEN Undefined
    ELSE LET rule == Head(rules)
         IN  IF includes(toLowerCase(description), toLowerCase(rule.keyword))
             THEN rule.categoryId
             ELSE suggestCategory(description, Tail(rules), cats)

Netflix == <<"n", "e", "t", "f", "l", "i", "x">>

TypedDescriptions ==
    { <<"N", "E", "T", "F", "L", "I", "X", Space, "M", "o", "n", "t", "h", "l", "y">>,
      <<"n", "e", "t", "f", "l", "e", "x">>,
      <<"U", "b", "e", "r", Space, "n", "e", "t", "f", "l", "i", "x">>,
      <<>> }

RuleKeywords == { Netflix, <<"N", "e", "t">>, <<"u", "b", "e", "r">>, <<"f", "l", "e", "x">> }

RuleArguments ==
    UNION { [1..n -> [id : {0}, keyword : RuleKeywords,
                      categoryId : CategoryIds \cup {UnknownCategoryId}]]
            : n \in 0..MaxRules }

\* The arguments of the call are fixed before it: any description, any rules.
InitRules ==
    /\ InitStore
    /\ categories = INITIAL_HOUSEHOLD_DATA.categories
    /\ InitTables
    /\ InitViews!1 /\ InitViews!2 /\ InitViews!3 /\ InitViews!5
    /\ InitViews!6 /\ InitViews!7
    /\ \E description \in TypedDescriptions, rules \in RuleArguments :
          suggested = [NotCalled EXCEPT !.description = description, !.rules = rules]
    /\ InitCalls
    /\ form = [isOpen |-> FALSE, amount |-> 0, memberId |-> 1, splits |-> <<>>]
    /\ nextUuid = 1

\* The call suggestCategory(description, rules, household.categories).
callSuggestCategory ==
        /\ ~suggested.called
        /\ suggested' = [suggested EXCEPT
                            !.called = TRUE,
                            !.result = suggestCategory(suggested.description,
                                                       suggested.rules, categories)]
        /\ UNCHANGED <<storage, members, categories, dbRules, dbBucketGoals, dbTrips, dbSettings,
                       dbExpenses, dbSplits, dbBudgets, dbSubscriptions, dbNotifications,
                       household, form, adding, saving, completed, nextUuid, overlapped,
                       goalModals, budgetSuggestions, dashboard, fileImport, trend, csvExport>>

NextRules == callSuggestCategory

SpecRules == InitRules /\ [][NextRules]_vars

----------------------------------------------------------------------------
(* FileImport.processFile and geminiService.categorizeTransactions *)

Other == <<"o", "t", "h", "e", "r">>

\* household.categories.find(c => c.name.toLowerCase() === 'other')?.id
\*     || household.categories[0]?.id
otherCategoryId(cats) ==
    LET named == {k \in 1..Len(cats) : toLowerCase(cats[k].name) = Other}
    IN  IF named # {} THEN cats[CHOOSE k \in named : \A j \in named : k <= j].id
        ELSE IF Len(cats) > 0 THEN cats[1].id
        ELSE Undefined

\* { ...transaction, categoryId }
Categorized(transaction, categoryId) ==
    [description |-> transaction.description, amount |-> transaction.amount,
     date |-> transaction.date, type |-> transaction.type, categoryId |-> categoryId]

\* Variant: the fallback takes the first category whatever the names are.
categorizeTransactions_firstCategory(transactions, cats, categoryIds) ==
    IF Len(transactions) = 0 THEN <<>>
    ELSE IF Len(categoryIds) # Len(transactions)
    THEN [i \in 1..Len(transactions) |-> Categorized(transactions[i], cats[1].id)]
    ELSE [i \in 1..Len(transactions) |-> Categorized(transactions[i], categoryIds[i])]

\* categoryIds is the array parsed from the Oracle's answer.
categorizeTransactions(transactions, cats, categoryIds) ==
    IF Len(transactions) = 0 THEN <<>>
    ELSE IF Len(categoryIds) # Len(transactions)
    THEN [i \in 1..Len(transactions) |->
              Categorized(transactions[i], otherCategoryId(cats))]
    ELSE [i \in 1..Len(transactions) |-> Categorized(transactions[i], categoryIds[i])]

\* The rows parseBankStatement returns for a statement.
ParsedRows ==
    [description : {<<"a">>}, amount : {10, 50}, date : {0}, type : {"debit", "credit"}]

ParsedStatements == UNION { [1..n -> ParsedRows] : n \in 0..MaxImportRows }

\* The arrays the Oracle may answer for n descriptions: any ids, any length.
OracleCategoryIds(n) ==
    UNION { [1..k -> CategoryIds \cup {UnknownCategoryId}] : k \in 0..n + 1 }

\* Category lists a household may hold: with and without a category 'Other'.
CategoryLists ==
    { INITIAL_HOUSEHOLD_DATA.categories,
      << [id |-> "cat-1", name |-> <<"G">>], [id |-> "cat-5", name |-> <<"O", "t", "h", "e", "r">>] >>,
      << [id |-> "cat-1", name |-> <<"G">>], [id |-> "cat-5", name |-> <<"O", "T", "H", "E", "R">>] >>,
      << [id |-> "cat-1", name |-> <<"G">>], [id |-> "cat-5", name |-> <<"O", "t", "h", "e", "r", "s">>] >> }

UnchangedByImport ==
    UNCHANGED <<storage, members, categories, dbRules, dbBucketGoals, dbTrips, dbSettings,
                dbExpenses, dbSplits, dbBudgets, dbSubscriptions, dbNotifications,
                household, form, adding, saving, completed, nextUuid, overlapped,
                goalModals, budgetSuggestions, dashboard, suggested,
                trend, csvExport>>

\* processFile(file) up to its finally block.  The drop zone is rendered only
\* while categorizedTransactions is null.  household is the one captured by
\* the callback; its categories never change.
processFile ==
    /\ fileImport.categorizedTransactions.isNull
    /\ \/ \* fileReader or parseBankStatement throws
          fileImport' = [NothingImported EXCEPT !.error = TRUE]
       \/ \E parsed \in ParsedStatements :
            IF Len(parsed) = 0
            THEN fileImport' = [NothingImported EXCEPT !.error = TRUE]
            ELSE \/ \* the Oracle fails or its answer is not JSON
                    fileImport' = [NothingImported EXCEPT
                                     !.error = TRUE, !.oracle = "throws"]
                 \/ \E categoryIds \in OracleCategoryIds(Len(parsed)) :
                      fileImport' =
                        [categorizedTransactions |->
                            [isNull |-> FALSE,
                             rows |-> categorizeTransactions(parsed, categories, categoryIds)],
                         error |-> FALSE, parsed |-> parsed,
                         oracle |-> "answered", categoryIds |-> categoryIds]
    /\ UnchangedByImport

\* FileImport.handleReset, the onReset of ImportReview.
handleReset ==
    /\ ~fileImport.categorizedTransactions.isNull
    /\ fileImport' = NothingImported
    /\ UnchangedByImport

InitImport ==
    /\ InitStore
    /\ categories \in CategoryLists
    /\ InitTables
    /\ InitViews
    /\ InitCalls
    /\ form = [isOpen |-> FALSE, amount |-> 0, memberId |-> 1, splits |-> <<>>]
    /\ nextUuid = 1

NextImport == processFile \/ handleReset

SpecImport == InitImport /\ [][NextImport]_vars

----------------------------------------------------------------------------
(* utils/chartUtils.prepareTrendData.  Here a date is a calendar date: year,
   month 0..11 as getMonth() returns it, day of the month 1..31.  Amounts are
   kept in cents where the code divides them by 100. *)

MaxTrendExpenses == 2

IsLeapYear(year) == year % 4 = 0 /\ (year % 100 # 0 \/ year % 400 = 0)

\* new Date(year, month + 1, 0).getDate(); month may be -1 (December before).
DaysInMonth(year, month) ==
    LET m == (month + 12) % 12
        y == IF month < 0 THEN year - 1 ELSE year
    IN  IF m = 1 THEN (IF IsLeapYear(y) THEN 29 ELSE 28)
        ELSE IF m \in {3, 5, 8, 10} THEN 30
        ELSE 31

Null == [isNull |-> TRUE, value |-> 0]
Number(v) == [isNull |-> FALSE, value |-> v]

\* lines 32-33: the expense is of the current month of the current year
InCurrentMonth(expense, now) ==
    /\ expense.date.year = now.year
    /\ expense.date.month = now.month
    /\ expense.date.day - 1 < DaysInMonth(now.year, now.month)

\* lines 34-38: the expense is of the month before
InPreviousMonth(expense, now) ==
    /\ ~InCurrentMonth(expense, now)
    /\ \/ now.month = 0 /\ expense.date.year = now.year - 1 /\ expense.date.month = 11
       \/ expense.date.year = now.year /\ expense.date.month = now.month - 1
    /\ expense.date.day - 1 < DaysInMonth(now.year, now.month - 1)

\* lines 26-42: the loop over expenses, adding each amount to its day
RECURSIVE Aggregate(_, _, _)
Aggregate(temp, expenses, now) ==
    IF expenses = <<>> THEN temp
    ELSE LET expense == Head(expenses)
             day == expense.date.day
             next ==
               IF InCurrentMonth(expense, now)
               THEN [temp EXCEPT !.tempCurrent[day] = @ + expense.amount]
               ELSE IF InPreviousMonth(expense, now)
               THEN [temp EXCEPT !.tempPrevious[day] = @ + expense.amount]
               ELSE temp
         IN  Aggregate(next, Tail(expenses), now)

\* the accumulator of reduce after the first n elements
RECURSIVE Acc(_, _)
Acc(temp, n) == IF n = 0 THEN 0 ELSE Acc(temp, n - 1) + temp[n]

\* Variant: future days hold the running total instead of null.
currentMonthData_noNull(tempCurrent, today) ==
    [d \in 1..Len(tempCurrent) |-> Number(Acc(tempCurrent, d))]

\* lines 45-54
currentMonthData(tempCurrent, today) ==
    [d \in 1..Len(tempCurrent) |->
        IF d - 1 < today THEN Number(Acc(tempCurrent, d)) ELSE Null]

\* Variant: the series is as long as the previous month and is left so.
previousMonthData_unfitted(tempPrevious, daysInCurrentMonth) ==
    [d \in 1..Len(tempPrevious) |-> Acc(tempPrevious, d)]

\* lines 20 and 56-71: the array is created with daysInCurrentMonth zeros, so
\* neither branch of the final length test is ever taken.
previousMonthData(tempPrevious, daysInCurrentMonth) ==
    LET filled == [d \in 1..daysInCurrentMonth |->
                      IF d <= Len(tempPrevious) THEN Acc(tempPrevious, d) ELSE 0]
    IN  IF Len(filled) > daysInCurrentMonth
        THEN SubSeq(filled, 1, daysInCurrentMonth)
        ELSE IF Len(filled) < daysInCurrentMonth
        THEN filled \o [i \in 1..daysInCurrentMonth - Len(filled) |->
                           IF Len(filled) = 0 THEN 0 ELSE filled[Len(filled)]]
        ELSE filled

\* labels are the day numbers 1..daysInCurrentMonth, written as text
prepareTrendData(expenses, now) ==
    LET daysInCurrentMonth == DaysInMonth(now.year, now.month)
        daysInPreviousMonth == DaysInMonth(now.year, now.month - 1)
        temp == Aggregate([tempCurrent |-> [d \in 1..daysInCurrentMonth |-> 0],
                           tempPrevious |-> [d \in 1..daysInPreviousMonth |-> 0]],
                          expenses, now)
    IN  [labels |-> [i \in 1..daysInCurrentMonth |-> i],
         currentMonthData |-> currentMonthData(temp.tempCurrent, now.day),
         previousMonthData |-> previousMonthData(temp.tempPrevious, daysInCurrentMonth)]

\* The wall clock: January to May of a leap year and of a common year, on the
\* first, the fifteenth and the last day of the month.
TrendClocks ==
    UNION { { [year |-> y, month |-> m, day |-> d] : d \in {1, 15, DaysInMonth(y, m)} }
            : <<y, m>> \in {2024, 2025} \X (0..4) }

\* Dates of expenses around a clock: this month, the month before, the same
\* month a year earlier; the first, the fifteenth and the last day.
TrendDates(now) ==
    LET months == { [year |-> now.year, month |-> now.month],
                    [year |-> now.year - 1, month |-> now.month],
                    IF now.month = 0 THEN [year |-> now.year - 1, month |-> 11]
                    ELSE [year |-> now.year, month |-> now.month - 1] }
    IN  UNION { { [year |-> ym.year, month |-> ym.month, day |-> d]
                  : d \in {1, 15, DaysInMonth(ym.year, ym.month)} } : ym \in months }

TrendExpenses(now) ==
    UNION { [1..n -> [date : TrendDates(now), amount : {100, 250}]]
            : n \in 0..MaxTrendExpenses }

UnchangedByTrend ==
    UNCHANGED <<storage, members, categories, dbRules, dbBucketGoals, dbTrips, dbSettings,
                dbExpenses, dbSplits, dbBudgets, dbSubscriptions, dbNotifications,
                household, form, adding, saving, completed, nextUuid, overlapped,
                goalModals, budgetSuggestions, dashboard, suggested, fileImport,
                csvExport>>

\* The arguments of the call are fixed before it: any clock, any expenses.
InitTrend ==
    /\ InitStore
    /\ categories = INITIAL_HOUSEHOLD_DATA.categories
    /\ InitTables
    /\ InitViews!1 /\ InitViews!2 /\ InitViews!3 /\ InitViews!4 /\ InitViews!5
    /\ InitViews!7
    /\ \E now \in TrendClocks :
         \E expenses \in TrendExpenses(now) :
           trend = [NoTrend EXCEPT !.now = now, !.expenses = expenses]
    /\ InitCalls
    /\ form = [isOpen |-> FALSE, amount |-> 0, memberId |-> 1, splits |-> <<>>]
    /\ nextUuid = 1

\* Dashboard line 37: prepareTrendData(expenses) at the clock's time.
callPrepareTrendData ==
    /\ ~trend.computed
    /\ trend' = [trend EXCEPT !.computed = TRUE,
                              !.result = prepareTrendData(trend.expenses, trend.now)]
    /\ UnchangedByTrend

NextTrend == callPrepareTrendData

SpecTrend == InitTrend /\ [][NextTrend]_vars

----------------------------------------------------------------------------
(* ExpenseTracker.handleExportCSV.  The file is the sequence of its
   characters. *)

MaxCsvExpenses == 2

Comma == ","
Quote == "\""
NewLine == "\n"

DecimalDigits == <<"0", "1", "2", "3", "4", "5", "6", "7", "8", "9">>

\* String(n) for a natural number n
RECURSIVE NatText(_)
NatText(n) ==
    IF n < 10 THEN <<DecimalDigits[n + 1]>>
    ELSE NatText(n \div 10) \o <<DecimalDigits[(n % 10) + 1]>>

\* (cents / 100).toFixed(2) for a whole number of cents
toFixed2(cents) ==
    LET a == IF cents < 0 THEN -cents ELSE cents
    IN  (IF cents < 0 THEN <<"-">> ELSE <<>>)
        \o NatText(a \div 100) \o <<".">>
        \o <<DecimalDigits[((a % 100) \div 10) + 1], DecimalDigits[(a % 10) + 1]>>

\* cell.replace(/"/g, '""')
RECURSIVE DoubleQuotes(_)
DoubleQuotes(cell) ==
    IF cell = <<>> THEN <<>>
    ELSE (IF Head(cell) = Quote THEN <<Quote, Quote>> ELSE <<Head(cell)>>)
         \o DoubleQuotes(Tail(cell))

\* Variant: the cell is wrapped but its quotes are left single.
formatCSVCell_quotesLeft(cellData) ==
    IF \E k \in 1..Len(cellData) : cellData[k] \in {Comma, Quote, NewLine}
    THEN <<Quote>> \o cellData \o <<Quote>>
    ELSE cellData

formatCSVCell(cellData) ==
    IF \E k \in 1..Len(cellData) : cellData[k] \in {Comma, Quote, NewLine}
    THEN <<Quote>> \o DoubleQuotes(cellData) \o <<Quote>>
    ELSE cellData

\* Array.prototype.join
RECURSIVE join(_, _)
join(texts, separator) ==
    IF texts = <<>> THEN <<>>
    ELSE IF Len(texts) = 1 THEN texts[1]
    ELSE texts[1] \o <<separator>> \o join(Tail(texts), separator)

headers ==
    << <<"E", "x", "p", "e", "n", "s", "e", " ", "I", "D">>,
       <<"D", "a", "t", "e">>,
       <<"D", "e", "s", "c", "r", "i", "p", "t", "i", "o", "n">>,
       <<"T", "o", "t", "a", "l", " ", "A", "m", "o", "u", "n", "t", " ", "(", "I", "N", "R", ")">>,
       <<"C", "a", "t", "e", "g", "o", "r", "y">>,
       <<"P", "a", "y", "e", "r">>,
       <<"S", "p", "l", "i", "t", " ", "M", "e", "m", "b", "e", "r">>,
       <<"M", "e", "m", "b", "e", "r", "'", "s", " ", "S", "h", "a", "r", "e", " ", "(", "I", "N", "R", ")">> >>

\* exp.id, 'exp-' and a UUID
ExpenseIdText(id) == <<"e", "x", "p", "-">> \o NatText(id)

\* new Date(exp.date).toISOString().split('T')[0]: digits and '-' only
IsoDateText(date) ==
    IF date < 0 THEN <<"2", "0", "2", "5", "-">> \o NatText(-date)
    ELSE <<"2", "0", "2", "6", "-">> \o NatText(date)

\* getCategory(id)?.name || 'Uncategorized'
CategoryNameText(id) ==
    IF \E k \in 1..Len(categories) : categories[k].id = id
    THEN categories[CHOOSE k \in 1..Len(categories) : categories[k].id = id].name
    ELSE <<"U", "n", "c", "a", "t", "e", "g", "o", "r", "i", "z", "e", "d">>

\* getMember(id)?.name || 'Unknown'
MemberNameText(id) ==
    IF id = 1 /\ \E k \in 1..Len(members) : members[k] = 1 THEN <<"R", "o", "h", "a", "n">>
    ELSE IF id = 2 /\ \E k \in 1..Len(members) : members[k] = 2 THEN <<"P", "r", "i", "y", "a">>
    ELSE <<"U", "n", "k", "n", "o", "w", "n">>

\* lines 252-262: the row of one split of an expense
CsvRow(exp, split) ==
    join(<< formatCSVCell(ExpenseIdText(exp.id)),
            IsoDateText(exp.date),
            formatCSVCell(exp.description),
            toFixed2(exp.amount),
            formatCSVCell(CategoryNameText(exp.categoryId)),
            formatCSVCell(MemberNameText(exp.memberId)),
            formatCSVCell(MemberNameText(split.memberId)),
            toFixed2(split.amount) >>, Comma)

\* Variant: a row for every split, whatever its amount.
CsvRowsOf_everySplit(exp) ==
    [k \in 1..Len(exp.splits) |-> CsvRow(exp, exp.splits[k])]

\* lines 250-264: exp.splits.forEach with the test split.amount > 0
CsvRowsOf(exp) ==
    LET shown == SelectSeq(exp.splits, LAMBDA split : split.amount > 0)
    IN  [k \in 1..Len(shown) |-> CsvRow(exp, shown[k])]

RECURSIVE CsvRows(_)
CsvRows(filteredExpenses) ==
    IF filteredExpenses = <<>> THEN <<>>
    ELSE CsvRowsOf(Head(filteredExpenses)) \o CsvRows(Tail(filteredExpenses))

\* csvRows.join('\n') with the header line first
CsvString(filteredExpenses) ==
    join(<<join(headers, Comma)>> \o CsvRows(filteredExpenses), NewLine)

CsvDescriptions ==
    { <<>>,
      <<"a">>,
      <<"a", ",", "b">>,
      <<"\"">>,
      <<"a", "\n", "b">>,
      <<",", "\"", "\"">> }

\* Amounts and splits as the form and the import store them: one split of the
\* whole amount, two splits, an imported row of amount 0, and a submission
\* whose only positive split exceeds the amount.
CsvAmounts ==
    { [amount |-> 100, splits |-> <<[memberId |-> 1, amount |-> 100]>>],
      [amount |-> 1001, splits |-> <<[memberId |-> 2, amount |-> 501],
                                     [memberId |-> 1, amount |-> 500]>>],
      [amount |-> 0, splits |-> <<[memberId |-> 1, amount |-> 0]>>],
      [amount |-> 50, splits |-> <<[memberId |-> 2, amount |-> 100]>>] }

CsvExpenses ==
    { [id |-> 0, description |-> d, amount |-> a.amount, date |-> 0, memberId |-> 1,
       categoryId |-> c, splits |-> a.splits]
      : d \in CsvDescriptions, a \in CsvAmounts, c \in {"cat-1"} }

\* The lists filteredExpenses may be; the expenses carry distinct ids.
FilteredExpenseLists ==
    UNION { { [i \in 1..n |-> [list[i] EXCEPT !.id = i]] : list \in [1..n -> CsvExpenses] }
            : n \in 0..MaxCsvExpenses }

UnchangedByExport ==
    UNCHANGED <<storage, members, categories, dbRules, dbBucketGoals, dbTrips, dbSettings,
                dbExpenses, dbSplits, dbBudgets, dbSubscriptions, dbNotifications,
                household, form, adding, saving, completed, nextUuid, overlapped,
                goalModals, budgetSuggestions, dashboard, suggested, fileImport,
                trend>>

\* The list shown in the tracker is fixed before the export: any list.
InitExport ==
    /\ InitStore
    /\ categories = INITIAL_HOUSEHOLD_DATA.categories
    /\ InitTables
    /\ InitViews!1 /\ InitViews!2 /\ InitViews!3 /\ InitViews!4 /\ InitViews!5
    /\ InitViews!6
    /\ \E list \in FilteredExpenseLists :
          csvExport = [NotExported EXCEPT !.filteredExpenses = list]
    /\ InitCalls
    /\ form = [isOpen |-> FALSE, amount |-> 0, memberId |-> 1, splits |-> <<>>]
    /\ nextUuid = 1

handleExportCSV ==
    /\ ~csvExport.exported /\ ~csvExport.alerted
    /\ csvExport' =
          IF Len(csvExport.filteredExpenses) = 0
          THEN [csvExport EXCEPT !.alerted = TRUE]
          ELSE [csvExport EXCEPT !.exported = TRUE,
                                 !.csvString = CsvString(csvExport.filteredExpenses)]
    /\ UnchangedByExport

NextExport == handleExportCSV

SpecExport == InitExport /\ [][NextExport]_vars

----------------------------------------------------------------------------
(* Dashboard: the aggregates of the month *)

\* new Date(exp.date).getMonth() === new Date().getMonth(): the month numbers
\* agree, which a date does when it lies a multiple of 12 months away.
SameMonthNumber(date) == date % 12 = 0

\* expense.splits.forEach: a split is added to its member's total when the
\* member is one of household.members.
RECURSIVE AddSplits(_, _)
AddSplits(memberSpending, splits) ==
    IF splits = <<>> THEN memberSpending
    ELSE LET split == Head(splits)
         IN  AddSplits(IF split.memberId \in DOMAIN memberSpending
                       THEN [memberSpending EXCEPT ![split.memberId] = @ + split.amount]
                       ELSE memberSpending,
                       Tail(splits))

RECURSIVE AddExpenses(_, _)
AddExpenses(memberSpending, expenses) ==
    IF expenses = {} THEN memberSpending
    ELSE LET expense == CHOOSE x \in expenses : TRUE
         IN  AddExpenses(AddSplits(memberSpending, expense.splits), expenses \ {expense})

\* Variant: the budget rows sum the splits of the category's expenses.
Dashboard_spentFromSplits(hh) ==
    LET expensesThisMonth == {exp \in hh.expenses : SameMonthNumber(exp.date)}
        zero == [m \in {members[i] : i \in 1..Len(members)} |-> 0]
    IN  [ rendered |-> TRUE,
          expensesThisMonth |-> expensesThisMonth,
          totalExpensesThisMonth |-> SumSet(expensesThisMonth),
          spendingByMember |-> AddExpenses(zero, expensesThisMonth),
          spent |-> [c \in {b.categoryId : b \in hh.budgets} |->
                        SumSet({[amount |-> SumSeq(e.splits), id |-> e.id]
                                : e \in {x \in expensesThisMonth : x.categoryId = c}})] ]

\* One render: lines 22-25 (the month's expenses and their total), 39-55
\* (spendingByMember, before the sort that only orders the rows) and 133-136
\* (the spent amount of each budget row).
Dashboard(hh) ==
    LET expensesThisMonth == {exp \in hh.expenses : SameMonthNumber(exp.date)}
        zero == [m \in {members[i] : i \in 1..Len(members)} |-> 0]
    IN  [ rendered |-> TRUE,
          expensesThisMonth |-> expensesThisMonth,
          totalExpensesThisMonth |-> SumSet(expensesThisMonth),
          spendingByMember |-> AddExpenses(zero, expensesThisMonth),
          spent |-> [c \in {b.categoryId : b \in hh.budgets} |->
                        SumSet({e \in expensesThisMonth : e.categoryId = c})] ]

renderDashboard ==
    /\ dashboard' = Dashboard(household)
    /\ UNCHANGED <<storage, members, dbExpenses, dbSplits, dbBudgets, dbSubscriptions,
                   dbNotifications, household, settingsTables, form, adding, saving,
                   completed, nextUuid, overlapped, goalModals, budgetSuggestions,
                   suggested, fileImport, trend, csvExport>>

\* The expenses a household may hold besides the seed: their splits sum to
\* the amount, to less or to more; they are dated this month, last month or
\* a year ago.
DashboardDates == {-12, -1, 0}

DashboardSplits(amount) ==
    { << [memberId |-> 1, amount |-> amount] >>,
      << [memberId |-> 1, amount |-> amount \div 2], [memberId |-> 2, amount |-> amount \div 2] >>,
      << [memberId |-> 2, amount |-> amount + 10] >>,
      << [memberId |-> 2, amount |-> 5] >> }

DashboardExpenses ==
    UNION { { [id |-> 0, description |-> <<"a">>, amount |-> amount, date |-> date,
               memberId |-> 1, categoryId |-> categoryId, splits |-> splits]
              : date \in DashboardDates, categoryId \in CategoryIds,
                splits \in DashboardSplits(amount) } : amount \in {10, 50} }

InitDash ==
    /\ members = INITIAL_HOUSEHOLD_DATA.members
    /\ categories = INITIAL_HOUSEHOLD_DATA.categories
    /\ \E n \in 0..MaxDashboardExpenses :
        \E added \in [1..n -> DashboardExpenses] :
          LET expenses == {[added[i] EXCEPT !.id = i] : i \in 1..n}
          IN  /\ dbExpenses = InitStoreExpenses \cup
                    { [id |-> e.id, description |-> e.description, amount |-> e.amount,
                       date |-> e.date, memberId |-> e.memberId,
                       categoryId |-> e.categoryId, tripId |-> NoTrip] : e \in expenses }
              /\ dbSplits = InitStoreSplits \o SplitRowsToInsert(expenses)
    /\ dbBudgets \in { INITIAL_HOUSEHOLD_DATA.budgets,
                        INITIAL_HOUSEHOLD_DATA.budgets \cup
                          {[id |-> "bud-cat-5", categoryId |-> "cat-5", amount |-> 50]} }
    /\ dbSubscriptions = INITIAL_HOUSEHOLD_DATA.subscriptions
    /\ dbNotifications = INITIAL_HOUSEHOLD_DATA.notifications
    /\ InitTables
    /\ household = loadHouseholdData
    /\ InitViews
    /\ InitCalls
    /\ form = [isOpen |-> FALSE, amount |-> 0, memberId |-> 1, splits |-> <<>>]
    /\ nextUuid = 1

NextDash == renderDashboard

SpecDash == InitDash /\ [][NextDash]_vars

----------------------------------------------------------------------------
(* Specification of the equal split: a household of 1..MaxMembers members,
   a total of 0..MaxTotal cents typed into the open form *)

InitSplit ==
    /\ \E n \in 1..MaxMembers : members = [i \in 1..n |-> i]
    /\ \E totalAmountCents \in SplitTotals :
          form = [isOpen |-> TRUE, amount |-> totalAmountCents, memberId |-> 1,
                  splits |-> DefaultSplits(1, totalAmountCents)]
    /\ InitStore!2 /\ InitStore!3 /\ InitStore!4 /\ InitStore!5 /\ InitStore!6
    /\ InitStore!7
    /\ categories = INITIAL_HOUSEHOLD_DATA.categories
    /\ InitTables
    /\ InitViews
    /\ InitCalls
    /\ nextUuid = 1

NextSplit == handleSplitEqually

SpecSplit == InitSplit /\ [][NextSplit]_vars

----------------------------------------------------------------------------
(* Properties *)

NotificationsOf(uuid) == SelectSeq(dbNotifications, LAMBDA n : n.id[2] = uuid)

SplitRowsOf(expenseId) == SelectSeq(dbSplits, LAMBDA r : r.expenseId = expenseId)

NewExpenses == {e \in dbExpenses : e.id >= 1}

\* C1: every expense the Add Expense form hands to onAddExpense, and every
\* expense persisted from it, has splits that sum to its amount.
C1_SubmittedSplitsSumToAmount ==
    /\ \A t \in adding : SumSeq(t.expense.splits) = t.expense.amount
    /\ \A e \in NewExpenses : SumSeq(SplitRowsOf(e.id)) = e.amount

\* C2: once the update and the reload of a confirmed delete have completed,
\* the expense and its split rows are gone from the store and from
\* household.expenses, and every other expense is as it was.
C2_DeletedExpenseIsGone ==
    /\ \A call \in completed :
          call.op = "deleteExpense" =>
              /\ call.ref \notin Ids(dbExpenses)
              /\ SplitRowsOf(call.ref) = <<>>
              /\ call.ref \notin Ids(household.expenses)
    /\ \A e \in INITIAL_HOUSEHOLD_DATA.expenses :
          [op |-> "deleteExpense", ref |-> e.id, detail |-> ""] \notin completed
              => e \in loadHouseholdData.expenses

ValidDraft(e) ==
    /\ e.amount > 0
    /\ Trim(e.description) # <<>>
    /\ e.categoryId \in CategoryIds
    /\ \E i \in 1..Len(members) : members[i] = e.memberId

\* C3: a draft with amount <= 0, a blank description, an unknown category or
\* an unknown payer is rejected: no expense, split or notification row of it
\* is persisted.
C3_PersistedExpensesAreValid ==
    \A uuid \in 1..MaxUuid + 1 :
        ( \/ uuid \in Ids(dbExpenses)
          \/ SplitRowsOf(uuid) # <<>>
          \/ NotificationsOf(uuid) # <<>> )
        => \E e \in dbExpenses : e.id = uuid /\ ValidDraft(e)

BudgetNotificationTypes(notifications) ==
    { notifications[i].type :
        i \in {k \in 1..Len(notifications) :
                  notifications[k].id[1] \in {"notif-budget-exceeded", "notif-budget-warning"}} }

MonthToDate(hh, categoryId) ==
    SumSet({e \in hh.expenses : e.categoryId = categoryId /\ e.date >= 0})

BudgetRule(hh, t) ==
    LET c  == t.expense.categoryId
        Bs == {b.amount : b \in {x \in hh.budgets : x.categoryId = c}}
        spentBefore == MonthToDate(hh, c)
        spentAfter  == spentBefore + t.expense.amount
        emitted == BudgetNotificationTypes(t.notifications)
    IN  IF Bs = {} THEN emitted = {}
        ELSE \A B \in Bs :
            LET exceeded    == spentBefore < B /\ spentAfter >= B
                approaching == /\ 10 * spentBefore < 9 * B
                               /\ 9 * B <= 10 * spentAfter
                               /\ spentAfter < B
            IN  /\ ("error" \in emitted) <=> exceeded
                /\ ("warning" \in emitted) <=> (~exceeded /\ approaching)
                /\ Len(t.notifications) <= 1

\* C4: the budget check of a call emits an error exactly when spentBefore < B
\* and spentAfter >= B, otherwise a warning exactly when spentBefore < 0.9 B
\* and 0.9 B <= spentAfter < B, and nothing otherwise or without a budget.
C4_BudgetNotificationRule ==
    [][\A t \in adding' \ adding : BudgetRule(household, t)]_vars

C4_Witness ==
    /\ \E t \in adding : BudgetNotificationTypes(t.notifications) = {"error"}
    /\ \E i \in 1..Len(dbNotifications) : dbNotifications[i].id[1] = "notif-budget-warning"

BudgetAlerts(prefix, categoryId) ==
    {i \in 1..Len(dbNotifications) :
        /\ dbNotifications[i].id[1] = prefix
        /\ dbNotifications[i].message[2] = categoryId}

\* C5: over submissions made one after another (each reloaded before the next
\* starts) with positive amounts and a fixed budget, a category gets at most
\* one warning and at most one error, and no warning after the error.
C5_NoDuplicateBudgetAlerts ==
    (~overlapped /\ \A e \in NewExpenses : e.amount > 0) =>
        \A c \in CategoryIds :
            /\ Cardinality(BudgetAlerts("notif-budget-warning", c)) <= 1
            /\ Cardinality(BudgetAlerts("notif-budget-exceeded", c)) <= 1
            /\ \A w \in BudgetAlerts("notif-budget-warning", c),
                  x \in BudgetAlerts("notif-budget-exceeded", c) : w < x

\* C6: when the anomaly check throws, the call still persists the expense
\* with exactly the notification of the budget check, adds no anomaly
\* notification, and is not rejected.
C6_OracleFailureIsolation ==
    [][\A t \in adding \ adding' :
          \A call \in (saving' \cup completed') \ (saving \cup completed) :
              (call.ref = t.expense.id /\ call.detail = "throws") =>
                  /\ call.op = "addExpense"
                  /\ t.expense.id \in Ids(dbExpenses')
                  /\ dbNotifications' = dbNotifications \o t.notifications
                  /\ \A i \in 1..Len(dbNotifications') :
                        dbNotifications'[i].id # <<"notif-anomaly", t.expense.id>>]_vars

C6_Witness ==
    \E call \in completed :
        /\ call.op = "addExpense"
        /\ call.detail = "throws"
        /\ call.ref \in Ids(household.expenses)
        /\ Len(NotificationsOf(call.ref)) = 1
        /\ NotificationsOf(call.ref)[1].id[1] = "notif-budget-exceeded"

\* C7: the equal split loses no money: the split amounts left in the form sum
\* to the total, for every total >= 0 and 1..MaxMembers members.
C7_EqualSplitSumsToTotal ==
    SumSeq(form.splits) = form.amount

C7_Witness ==
    /\ Len(members) = MaxMembers
    /\ form.amount = MaxTotal
    /\ form.splits # DefaultSplits(form.memberId, form.amount)
    /\ form.splits[1].amount = form.splits[Len(members)].amount + 1

\* C8: the member at position i (0-based) gets floor(total/n) + 1 when
\* i < total mod n and floor(total/n) otherwise, in member order.
C8_RemainderToFirstMembers ==
    [][form'.splits # form.splits =>
          /\ Len(form'.splits) = Len(members)
          /\ \A i \in 0..Len(members) - 1 :
                /\ form'.splits[i + 1].memberId = members[i + 1]
                /\ form'.splits[i + 1].amount =
                      IF i < form.amount % Len(members)
                      THEN (form.amount \div Len(members)) + 1
                      ELSE form.amount \div Len(members)]_vars

C8_Witness ==
    /\ form.amount = 1000
    /\ Len(members) = 3
    /\ form.splits = << [memberId |-> 1, amount |-> 334],
                        [memberId |-> 2, amount |-> 333],
                        [memberId |-> 3, amount |-> 333] >>

\* C9: when a call runs its budget check, the snapshot it reads contains
\* every expense whose submission started earlier.
C9_SingleWriter ==
    [][\A t \in adding' \ adding :
          \A earlier \in 1..t.expense.id - 1 : earlier \in Ids(household.expenses)]_vars

\* C10: once two updates of the same field group and their reloads have
\* completed, the stored collection holds the effect of both.
C10_NoLostUpdate ==
    saving = {} =>
        \A call \in completed :
            call.op = "addSubscription" =>
                /\ call.ref \in Ids(dbSubscriptions)
                /\ call.ref \in Ids(household.subscriptions)

C12_AggregateCorrectness ==
    dashboard.rendered =>
        LET month == dashboard.expensesThisMonth
            rows(m) == SelectSeq(dbSplits,
                          LAMBDA r : r.memberId = m /\ r.expenseId \in Ids(month))
        IN  /\ \A i \in 1..Len(members) :
                  dashboard.spendingByMember[members[i]] = SumSeq(rows(members[i]))
            /\ dashboard.totalExpensesThisMonth =
                  SumSet({x \in dbExpenses : x.id \in Ids(month)})
            /\ \A b \in household.budgets :
                  dashboard.spent[b.categoryId] =
                      SumSet({x \in dbExpenses :
                                 x.id \in Ids(month) /\ x.categoryId = b.categoryId})

C12_Witness ==
    /\ dashboard.rendered
    /\ \E e \in dashboard.expensesThisMonth : SumSeq(e.splits) < e.amount
    /\ \E e \in dashboard.expensesThisMonth : SumSeq(e.splits) > e.amount
    /\ dashboard.spendingByMember[1] + dashboard.spendingByMember[2]
          # dashboard.totalExpensesThisMonth
    /\ \E b \in household.budgets : b.categoryId = "cat-5" /\ dashboard.spent["cat-5"] > 0

\* C13: the aggregates of a render cover exactly the expenses dated in the
\* current month of the current year: an expense dated in the same month of
\* another year contributes to none of the totals.
C13_MonthOfTheYearOnly ==
    dashboard.rendered =>
        LET month == {e \in household.expenses : e.date = 0}
        IN  /\ dashboard.totalExpensesThisMonth = SumSet(month)
            /\ \A b \in household.budgets :
                  dashboard.spent[b.categoryId] =
                      SumSet({e \in month : e.categoryId = b.categoryId})
            /\ \A i \in 1..Len(members) :
                  dashboard.spendingByMember[members[i]] =
                      SumSeq(SelectSeq(dbSplits,
                                LAMBDA r : r.memberId = members[i]
                                           /\ r.expenseId \in Ids(month)))

\* C14: the stored currentAmount of a bucket goal never decreases while the
\* goal exists, over any interleaving of goal creation, goal edit, transfer
\* confirmation and reload.
C14_CurrentAmountNeverDecreases ==
    [][\A i \in 1..Len(dbBucketGoals), j \in 1..Len(dbBucketGoals') :
          dbBucketGoals[i].id = dbBucketGoals'[j].id =>
              dbBucketGoals'[j].currentAmount >= dbBucketGoals[i].currentAmount]_vars

\* C15: the amounts of the goals written to the store (currentAmount after a
\* confirmed transfer, targetAmount after an edit) are whole cents.
C15_StoredAmountsAreWholeCents ==
    \A i \in 1..Len(dbBucketGoals) :
        /\ WholeCents(dbBucketGoals[i].currentAmount)
        /\ WholeCents(dbBucketGoals[i].targetAmount)

\* C16: at most one budget exists per category, in the store and in every
\* household snapshot, after any sequence of manual budget edits and applied
\* suggestions, whatever category ids the suggestions carry.
C16_OneBudgetPerCategory ==
    /\ UniqueCategoryIds(dbBudgets)
    /\ UniqueCategoryIds(household.budgets)

C16_Witness ==
    /\ [op |-> "applySuggestions", ref |-> 0, detail |-> ""] \in completed
    /\ [op |-> "budgetChange", ref |-> 0, detail |-> "cat-1"] \in completed
    /\ {b.categoryId : b \in household.budgets} = CategoryIds
    /\ \E b \in household.budgets : b.categoryId = "cat-5" /\ b.amount = 100
    /\ ~budgetSuggestions.isNull
    /\ \E i, j \in 1..Len(budgetSuggestions.list) :
          /\ i # j
          /\ budgetSuggestions.list[i].categoryId = budgetSuggestions.list[j].categoryId

\* Two characters are the same letter, whatever their case.
SameLetter(a, b) ==
    \/ a = b
    \/ \E i \in 1..26 : {a, b} = {UpperCaseLetters[i], LowerCaseLetters[i]}

\* keyword occurs in text at some offset, letter by letter, ignoring case.
OccursIn(keyword, text) ==
    \E offset \in 0..Len(text) :
        /\ offset + Len(keyword) <= Len(text)
        /\ \A k \in 1..Len(keyword) : SameLetter(keyword[k], text[offset + k])

\* C17: suggestCategory returns the category id of the first rule, in list
\* order, whose keyword occurs in the description ignoring case, and none
\* when no rule's keyword does.
C17_FirstMatchWins ==
    suggested.called =>
        LET matching == {i \in 1..Len(suggested.rules) :
                            OccursIn(suggested.rules[i].keyword, suggested.description)}
        IN  IF matching = {} THEN suggested.result = Undefined
            ELSE \E i \in matching :
                    /\ \A j \in matching : i <= j
                    /\ suggested.result = suggested.rules[i].categoryId

C17_Witness ==
    /\ suggested.called
    /\ suggested.description =
          <<"N", "E", "T", "F", "L", "I", "X", Space, "M", "o", "n", "t", "h", "l", "y">>
    /\ Len(suggested.rules) = 2
    /\ suggested.rules[1].keyword = <<"N", "e", "t">>
    /\ suggested.rules[2].keyword = Netflix
    /\ suggested.rules[1].categoryId = "cat-5"
    /\ suggested.rules[2].categoryId = "cat-1"
    /\ suggested.result = "cat-5"

\* C18: suggestCategory never returns an id that is absent from the supplied
\* categories: it returns none when the first matching rule names one.
C18_ResultIsAKnownCategory ==
    suggested.called =>
        \/ suggested.result = Undefined
        \/ \E k \in 1..Len(categories) : categories[k].id = suggested.result

\* Two texts are the same word, whatever the case of their letters.
SameWord(a, b) ==
    /\ Len(a) = Len(b)
    /\ \A k \in 1..Len(a) : SameLetter(a[k], b[k])

\* C19: categorizeTransactions returns one row per input transaction, in
\* input order; when the Oracle's array has another length than the input,
\* every row gets the id of the first category named 'Other' in any case,
\* else the id of the first category, and nothing fails.
C19_OneRowPerInputWithFallback ==
    fileImport.oracle = "answered" =>
        LET rows == fileImport.categorizedTransactions.rows
            parsed == fileImport.parsed
            named == {k \in 1..Len(categories) : SameWord(categories[k].name, Other)}
        IN  /\ ~fileImport.categorizedTransactions.isNull
            /\ ~fileImport.error
            /\ Len(rows) = Len(parsed)
            /\ \A i \in 1..Len(parsed) :
                  /\ rows[i].description = parsed[i].description
                  /\ rows[i].amount = parsed[i].amount
                  /\ rows[i].date = parsed[i].date
                  /\ rows[i].type = parsed[i].type
            /\ Len(fileImport.categoryIds) # Len(parsed) =>
                  \A i \in 1..Len(rows) :
                    \E k \in 1..Len(categories) :
                      /\ rows[i].categoryId = categories[k].id
                      /\ IF named = {} THEN k = 1
                         ELSE k \in named /\ \A j \in named : k <= j

C19_Witness ==
    /\ fileImport.oracle = "answered"
    /\ Len(fileImport.parsed) = 2
    /\ fileImport.parsed[1] # fileImport.parsed[2]
    /\ Len(fileImport.categoryIds) = 3
    /\ categories[2].name = <<"O", "T", "H", "E", "R">>
    /\ \A i \in 1..2 : fileImport.categorizedTransactions.rows[i].categoryId = "cat-5"

\* C20: every row categorizeTransactions produces carries a categoryId that
\* is the id of one of household.categories, whatever the Oracle answered.
C20_RowsCarryKnownCategories ==
    ~fileImport.categorizedTransactions.isNull =>
        \A i \in 1..Len(fileImport.categorizedTransactions.rows) :
            \E k \in 1..Len(categories) :
                categories[k].id = fileImport.categorizedTransactions.rows[i].categoryId

\* The sum of the amounts of the expenses of a list that are dated in the
\* month of the clock, on one of its days 1..d.
RECURSIVE SumUpToDay(_, _, _)
SumUpToDay(expenses, now, d) ==
    IF expenses = <<>> THEN 0
    ELSE LET e == Head(expenses)
         IN  (IF /\ e.date.year = now.year
                 /\ e.date.month = now.month
                 /\ e.date.day <= d
              THEN e.amount ELSE 0)
             + SumUpToDay(Tail(expenses), now, d)

\* C21: labels, the current-month series and the previous-month series all
\* have as many entries as the current month has days, whatever the length
\* of the previous month and whatever the expenses.
C21_SeriesHaveCurrentMonthLength ==
    trend.computed =>
        LET days == DaysInMonth(trend.now.year, trend.now.month)
        IN  /\ Len(trend.result.labels) = days
            /\ Len(trend.result.currentMonthData) = days
            /\ Len(trend.result.previousMonthData) = days

C21_Witness ==
    /\ trend.computed
    /\ trend.now.month = 1
    /\ Len(trend.expenses) = 2
    /\ trend.expenses[1].date.month = 0 /\ trend.expenses[1].date.day = 31
    /\ Len(trend.result.previousMonthData) = 29

\* C22: when the previous month is shorter than the current one, every entry
\* of the previous-month series after the previous month's last day equals
\* that month's final cumulative total, and the series never decreases.
C22_PreviousMonthPaddedWithLastValue ==
    trend.computed =>
        LET daysInPreviousMonth == DaysInMonth(trend.now.year, trend.now.month - 1)
            series == trend.result.previousMonthData
        IN  /\ \A d \in 1..Len(series) :
                  d > daysInPreviousMonth => series[d] = series[daysInPreviousMonth]
            /\ \A d \in 2..Len(series) : series[d - 1] <= series[d]

OutsideQuotes(text, i) ==
    Cardinality({k \in 1..i - 1 : text[k] = Quote}) % 2 = 0

FieldBreaks(text) ==
    {i \in 1..Len(text) : text[i] \in {Comma, NewLine} /\ OutsideQuotes(text, i)}

\* The k-th smallest element of a set of numbers.
Nth(S, k) == CHOOSE x \in S : Cardinality({y \in S : y < x}) = k - 1

RECURSIVE Undoubled(_)
Undoubled(inside) ==
    IF Len(inside) >= 2 /\ inside[1] = Quote /\ inside[2] = Quote
    THEN <<Quote>> \o Undoubled(SubSeq(inside, 3, Len(inside)))
    ELSE IF inside = <<>> THEN <<>>
    ELSE <<Head(inside)>> \o Undoubled(Tail(inside))

Unquoted(raw) ==
    IF Len(raw) >= 2 /\ raw[1] = Quote /\ raw[Len(raw)] = Quote
    THEN Undoubled(SubSeq(raw, 2, Len(raw) - 1))
    ELSE raw

\* The field between two consecutive breaks (or the ends of the text).
FieldBetween(text, start, end) == Unquoted(SubSeq(text, start + 1, end - 1))

\* The record between two consecutive record breaks, given all field breaks.
RecordBetween(text, breaks, start, end) ==
    LET starts == {start} \cup {i \in breaks : start < i /\ i < end}
        ends == {i \in breaks : start < i /\ i < end} \cup {end}
    IN  [k \in 1..Cardinality(starts) |->
            FieldBetween(text, Nth(starts, k), Nth(ends, k))]

CsvRecords(text) ==
    LET breaks == FieldBreaks(text)
        lines == {i \in breaks : text[i] = NewLine}
        starts == {0} \cup lines
        ends == lines \cup {Len(text) + 1}
    IN  [r \in 1..Cardinality(starts) |->
            RecordBetween(text, breaks, Nth(starts, r), Nth(ends, r))]

\* The number a text of decimal digits stands for.
RECURSIVE DigitsValue(_)
DigitsValue(text) ==
    IF text = <<>> THEN 0
    ELSE 10 * DigitsValue(SubSeq(text, 1, Len(text) - 1))
         + (CHOOSE v \in 0..9 : DecimalDigits[v + 1] = text[Len(text)])

\* The cents an amount column stands for: [-]digits.dd
CentsOf(text) ==
    LET negative == text # <<>> /\ text[1] = "-"
        digits == SelectSeq(text, LAMBDA c : c \notin {"-", "."})
    IN  IF negative THEN -DigitsValue(digits) ELSE DigitsValue(digits)

\* The sum of a list of numbers.
RECURSIVE SumNumbers(_)
SumNumbers(numbers) ==
    IF numbers = <<>> THEN 0 ELSE Head(numbers) + SumNumbers(Tail(numbers))

\* The data records of an exported file that carry the id of an expense.
RecordsOf(records, exp) ==
    SelectSeq(Tail(records), LAMBDA r : r[1] = ExpenseIdText(exp.id))

\* C24: the export holds, for each expense, one data row per split of a
\* positive amount, in the order of the splits, and no other row; when the
\* splits of an expense sum to its amount, the shares of its rows sum to the
\* total its rows show.
C24_OneRowPerPositiveSplit ==
    csvExport.exported =>
        LET list == csvExport.filteredExpenses
            records == CsvRecords(csvExport.csvString)
        IN  /\ Len(records) - 1
                 = SumNumbers([i \in 1..Len(list) |->
                      Len(SelectSeq(list[i].splits, LAMBDA split : split.amount > 0))])
            /\ \A i \in 1..Len(list) :
                  LET rows == RecordsOf(records, list[i])
                      positive == SelectSeq(list[i].splits, LAMBDA split : split.amount > 0)
                  IN  /\ Len(rows) = Len(positive)
                      /\ \A k \in 1..Len(rows) :
                            /\ CentsOf(rows[k][8]) = positive[k].amount
                            /\ rows[k][7] = MemberNameText(positive[k].memberId)
                      /\ (SumSeq(list[i].splits) = list[i].amount /\ Len(rows) > 0)
                            => SumNumbers([k \in 1..Len(rows) |-> CentsOf(rows[k][8])])
                                 = CentsOf(rows[1][4])

C24_Witness ==
    /\ csvExport.exported
    /\ Len(csvExport.filteredExpenses) = 2
    /\ Len(csvExport.filteredExpenses[1].splits) = 2
    /\ csvExport.filteredExpenses[2].amount = 0
    /\ Len(CsvRecords(csvExport.csvString)) = 3
    /\ CsvRecords(csvExport.csvString)[2][4] = <<"1", "0", ".", "0", "1">>
    /\ CsvRecords(csvExport.csvString)[2][8] = <<"5", ".", "0", "1">>
    /\ CsvRecords(csvExport.csvString)[3][8] = <<"5", ".", "0", "0">>

\* C25: read back by the usual quoting rule, every data row of the export has
\* eight columns and its text columns are the original texts; a file whose
\* texts hold no comma, quote or line feed holds no quote at all.
C25_QuotingRoundTrips ==
    csvExport.exported =>
        LET list == csvExport.filteredExpenses
            records == CsvRecords(csvExport.csvString)
            special(text) == \E k \in 1..Len(text) : text[k] \in {Comma, Quote, NewLine}
        IN  /\ records[1] = headers
            /\ \A r \in 2..Len(records) : Len(records[r]) = 8
            /\ \A i \in 1..Len(list) :
                  LET rows == RecordsOf(records, list[i])
                  IN  \A k \in 1..Len(rows) :
                        /\ rows[k][3] = list[i].description
                        /\ rows[k][5] = CategoryNameText(list[i].categoryId)
                        /\ rows[k][6] = MemberNameText(list[i].memberId)
            /\ (\A i \in 1..Len(list) : ~special(list[i].description))
                  => \A c \in 1..Len(csvExport.csvString) : csvExport.csvString[c] # Quote

C25_Witness ==
    /\ csvExport.exported
    /\ Len(csvExport.filteredExpenses) = 2
    /\ csvExport.filteredExpenses[1].description = <<",", "\"", "\"">>
    /\ csvExport.filteredExpenses[2].description = <<"a", "\n", "b">>
    /\ csvExport.filteredExpenses[1].amount = 100
    /\ csvExport.filteredExpenses[2].amount = 100
    /\ Len(CsvRecords(csvExport.csvString)) = 3
    /\ CsvRecords(csvExport.csvString)[2][3] = <<",", "\"", "\"">>
    /\ CsvRecords(csvExport.csvString)[3][3] = <<"a", "\n", "b">>

\* C26: the notifications one call appends are at most one budget
\* notification followed by at most one anomaly warning; the anomaly warning
\* is there exactly when the Oracle answered isAnomalous, with its reasoning.
C26_BudgetThenAnomaly ==
    [][\A t \in adding \ adding' :
          \A call \in (saving' \cup completed') \ (saving \cup completed) :
              call.ref = t.expense.id =>
                  LET appended == SubSeq(dbNotifications', Len(dbNotifications) + 1,
                                         Len(dbNotifications'))
                      budget == SelectSeq(appended,
                                    LAMBDA n : n.id[1] \in {"notif-budget-exceeded",
                                                            "notif-budget-warning"})
                      anomaly == SelectSeq(appended, LAMBDA n : n.id[1] = "notif-anomaly")
                  IN  /\ SubSeq(dbNotifications', 1, Len(dbNotifications)) = dbNotifications
                      /\ Len(budget) <= 1
                      /\ Len(anomaly) <= 1
                      /\ appended = budget \o anomaly
                      /\ Len(anomaly) = 1 <=> call.detail = "anomalous"
                      /\ \A i \in 1..Len(anomaly) :
                            /\ anomaly[i].type = "warning"
                            /\ anomaly[i].message = <<"unusual", "reasoning">>]_vars

C26_Witness ==
    \E call \in completed :
        /\ call.op = "addExpense"
        /\ call.detail = "anomalous"
        /\ Len(NotificationsOf(call.ref)) = 2
        /\ NotificationsOf(call.ref)[1].type = "error"
        /\ NotificationsOf(call.ref)[2].id[1] = "notif-anomaly"

\* C27: for every call, spentBefore is the sum of the amounts of the
\* household's expenses of the new expense's category dated inside the
\* wall-clock month, neither before its first day nor after its last, and
\* spentAfter is spentBefore plus the new amount.
C27_SpentWithinTheMonth ==
    \A t \in adding :
        LET ofTheMonth == {e \in household.expenses :
                              e.categoryId = t.expense.categoryId /\ e.date = 0}
        IN  /\ SpentBefore(household, t.expense) = SumSet(ofTheMonth)
            /\ SpentAfter(household, t.expense) = SumSet(ofTheMonth) + t.expense.amount

\* C28: a save of the trips collection leaves every remaining trip with
\* exactly the expenses it was saved with, each with exactly the split rows
\* it was saved with, leaves no split row without its expense, and leaves
\* the general expense list as it was.
C28_TripSavesPreserveExpenses ==
    [][(\E call \in saving' \ saving : call.op \in TripOps) =>
          LET after == loadHouseholdData'
          IN  /\ \A i \in 1..Len(after.trips) :
                    after.trips[i].expenses =
                      IF \E j \in 1..Len(household.trips) :
                            household.trips[j].id = after.trips[i].id
                      THEN household.trips[CHOOSE j \in 1..Len(household.trips) :
                               household.trips[j].id = after.trips[i].id].expenses
                      ELSE {}
              /\ \A r \in 1..Len(dbSplits') : dbSplits'[r].expenseId \in Ids(dbExpenses')
              /\ after.expenses = loadHouseholdData.expenses]_vars

\* C29: db.addExpense is all or nothing.  When one of its inserts fails, the
\* tables hold none of the call's rows and the household loaded afterwards
\* is the one loaded before; when none fails, the expense row, its split
\* rows and the call's notifications are all in the tables.
C29_AddExpenseAllOrNothing ==
    [][\A t \in adding \ adding' :
          \A call \in (saving' \cup completed') \ (saving \cup completed) :
              call.ref = t.expense.id =>
                  IF call.detail = RolledBack
                  THEN /\ t.expense.id \notin Ids(dbExpenses')
                       /\ \A r \in 1..Len(dbSplits') : dbSplits'[r].expenseId # t.expense.id
                       /\ \A n \in 1..Len(dbNotifications') :
                             dbNotifications'[n].id[2] # t.expense.id
                       /\ loadHouseholdData' = loadHouseholdData
                  ELSE /\ t.expense.id \in Ids(dbExpenses')
                       /\ SelectSeq(dbSplits', LAMBDA r : r.expenseId = t.expense.id)
                            = [i \in 1..Len(t.expense.splits) |->
                                 [expenseId |-> t.expense.id,
                                  memberId |-> t.expense.splits[i].memberId,
                                  amount |-> t.expense.splits[i].amount]]
                       /\ NotificationsOf(t.expense.id)'
                            = AnomalyDetectionCheck(t.notifications, t.expense.id,
                                                    call.detail).notifications]_vars

C29_Witness ==
    /\ \E call \in completed :
          /\ call.op = "addExpense"
          /\ call.detail = RolledBack
          /\ call.ref \notin Ids(dbExpenses)
          /\ NotificationsOf(call.ref) = <<>>
    /\ \E call \in completed :
          /\ call.op = "addExpense"
          /\ call.detail = "anomalous"
          /\ call.ref \in Ids(household.expenses)
          /\ Len(NotificationsOf(call.ref)) = 2

\* C30: once a database has been saved, an initDB call, whatever the
\* storage read returns, does not replace the saved data with the seed
\* data: while db is null the saved file stays as it is.
C30_SavedDataSurvivesInitDB ==
    [][(storage.hasFile /\ ~storage.db) => storage'.file = storage.file]_vars


====
